---------------------------- MODULE Spec2Model ----------------------------
(***************************************************************************)
(* Model of the resource-lifecycle analyzer                                *)
(* (ultimate_bug_scanner/modules/helpers/resource_lifecycle_py.py).        *)
(*                                                                         *)
(* The Analyzer is an ast.NodeVisitor.  Its fields (records, safe_calls,   *)
(* assigned_calls, scope_stack) are the state; the traversal position is   *)
(* the agenda of nodes generic_visit still has to visit plus the stack of  *)
(* compound statements (def / with) whose bodies are being iterated.  The  *)
(* syntax tree is the input: its statements are drawn, one per source      *)
(* line, from a bounded alphabet when the traversal reaches them.          *)
(*                                                                         *)
(* A Python str is modelled as the sequence of its dot-separated           *)
(* components ("pathlib.Path" is <<"pathlib", "Path">>, "" is <<"">>) and  *)
(* None as the empty sequence, so that f"{a}.{b}" is a \o b.               *)
(***************************************************************************)
EXTENDS Integers, Sequences, FiniteSets, TLC

VARIABLES records, safe_calls, assigned_calls, scope_stack,
          agenda, blocks, line, pc, issues, prog,
          files, found, run, queue, path, main_issues, returned, stdout, stderr

\* the state of main and of the file system it reads
driver == <<files, found, run, queue, path, main_issues, returned, stdout, stderr>>

vars == <<records, safe_calls, assigned_calls, scope_stack,
          agenda, blocks, line, pc, issues, prog, driver>>

(***************************************************************************)
(* Bounds of the explored inputs.                                          *)
(***************************************************************************)
MaxStmts == 3
MaxNestStmts == 5
MaxFiles == 2
MaxFileStmts == 1
MaxAliasStmts == 2
MaxScopeStmts == 4
MaxShadowStmts == 4
MaxNesting == 2
MaxChainStmts == 2
MaxAloneStmts == 1
MaxRootParts == 2

(***************************************************************************)
(* Python values.                                                          *)
(***************************************************************************)
None == <<>>

S(x) == <<x>>

Truthy(s) == s # None /\ s # <<"">>

Or(a, b) == IF Truthy(a) THEN a ELSE b

EmptyMap == <<>>

Put(m, k, v) == [x \in DOMAIN m \cup {k} |-> IF x = k THEN v ELSE m[x]]

(***************************************************************************)
(* Signature registry.                                                     *)
(***************************************************************************)
Kinds == {"file_handle", "socket_handle", "popen_handle", "asyncio_task"}

TARGET_SIGS ==
  [sig \in { <<None, S("open")>>,
             <<S("builtins"), S("open")>>,
             <<S("io"), S("open")>>,
             <<S("pathlib"), S("open")>>,
             <<<<"pathlib", "Path">>, S("open")>>,
             <<S("tempfile"), S("NamedTemporaryFile")>>,
             <<S("tempfile"), S("TemporaryFile")>>,
             <<S("tempfile"), S("SpooledTemporaryFile")>>,
             <<S("socket"), S("socket")>>,
             <<S("socket"), S("create_connection")>>,
             <<S("socket"), S("socketpair")>>,
             <<S("subprocess"), S("Popen")>>,
             <<S("asyncio"), S("create_task")>> } |->
     CASE sig[1] = S("socket") -> "socket_handle"
       [] sig[1] = S("subprocess") -> "popen_handle"
       [] sig[1] = S("asyncio") -> "asyncio_task"
       [] OTHER -> "file_handle"]

\* dict order is insertion order: the release loop takes the first match
RELEASE_METHODS ==
  << [kind |-> "file_handle", methods |-> {S("close")}],
     [kind |-> "socket_handle", methods |-> {S("close"), S("shutdown")}],
     [kind |-> "popen_handle",
      methods |-> {S("wait"), S("communicate"), S("terminate"), S("kill")}],
     [kind |-> "asyncio_task", methods |-> {S("cancel")}] >>

\* RELEASE_METHODS.get(kind, set())
ReleaseMethodsOf(kind) ==
  LET hit == {i \in DOMAIN RELEASE_METHODS : RELEASE_METHODS[i].kind = kind}
  IN IF hit = {} THEN {} ELSE RELEASE_METHODS[CHOOSE i \in hit : TRUE].methods

TASK_RELEASE_SIGS ==
  { <<S("asyncio"), S("gather")>>,
    <<S("asyncio"), S("wait")>>,
    <<S("asyncio"), S("wait_for")>> }

MESSAGE_TEMPLATES ==
  [k \in Kinds |->
     CASE k = "file_handle" ->
            "File handle {name} opened without context manager or close()"
       [] k = "socket_handle" -> "Socket {name} opened without close()"
       [] k = "popen_handle" -> "subprocess handle {name} never waited/terminated"
       [] k = "asyncio_task" -> "asyncio task {name} neither awaited nor cancelled"]

(***************************************************************************)
(* Syntax tree nodes (the parser's output, the analyzer's input).  A Call  *)
(* node carries uid, the identity id(node) of the node object.             *)
(***************************************************************************)
Name(id) == [t |-> "Name", id |-> S(id)]

Attribute(value, attr) == [t |-> "Attribute", value |-> value, attr |-> S(attr)]

Constant == [t |-> "Constant"]

Call(uid, lineno, func, args, keywords) ==
  [t |-> "Call", uid |-> uid, lineno |-> lineno, func |-> func,
   args |-> args, keywords |-> keywords]

Keyword(arg, value) == [arg |-> S(arg), value |-> value]

Await(value) == [t |-> "Await", value |-> value]

Starred(value) == [t |-> "Starred", value |-> value]

TupleNode(elts) == [t |-> "Tuple", elts |-> elts]

ListNode(elts) == [t |-> "List", elts |-> elts]

SetNode(elts) == [t |-> "Set", elts |-> elts]

Expr(value) == [t |-> "Expr", value |-> value]

Assign(targets, value) == [t |-> "Assign", targets |-> targets, value |-> value]

\* value[slice]
Subscript(value, slice) == [t |-> "Subscript", value |-> value, slice |-> slice]

\* [elt for target in iter]
ListComp(elt, target, iter) ==
  [t |-> "ListComp", elt |-> elt, target |-> target, iter |-> iter]

NoNode == [t |-> "NoNode"]

\* ast.alias: name and asname are str, asname None when the source gives none
Alias(name, asname) == [name |-> name, asname |-> asname]

Import(names) == [t |-> "Import", names |-> names]

\* module is None for "from . import name"
ImportFrom(module, names) == [t |-> "ImportFrom", module |-> module, names |-> names]

\* return / yield / yield from; value is NoNode when the source gives none
Return(value) == [t |-> "Return", value |-> value]

Yield(value) == [t |-> "Yield", value |-> value]

YieldFrom(value) == [t |-> "YieldFrom", value |-> value]

WithItem(context_expr, optional_vars) ==
  [context_expr |-> context_expr, optional_vars |-> optional_vars]

With(t, items) == [t |-> t, items |-> items]

\* lineno: the first line of the definition statement; the body is iterated
\* statement by statement, then decorator_list is visited
DecoratedDef(t, lineno, decorator_list) ==
  [t |-> t, lineno |-> lineno, decorator_list |-> decorator_list]

FunctionDef(t, lineno) == DecoratedDef(t, lineno, <<>>)

(***************************************************************************)
(* ResourceRecord and Scope.                                               *)
(***************************************************************************)
ResourceRecord(name, kind, lineno) ==
  [name |-> name, kind |-> kind, lineno |-> lineno, released |-> FALSE]

\* by_name holds, per name, the indexes in records of the records filed
\* under it, in creation order
Scope == [aliases |-> EmptyMap, by_name |-> EmptyMap]

\* the analyzer object, as the helpers below pass it along
Self ==
  [records |-> records, safe_calls |-> safe_calls,
   assigned_calls |-> assigned_calls, scope_stack |-> scope_stack]

(***************************************************************************)
(* Analyzer helpers.  Each takes the analyzer (an) and returns the         *)
(* analyzer after the call, or the value the method returns.               *)
(***************************************************************************)
Reversed(seq) == [i \in 1..Len(seq) |-> seq[Len(seq) + 1 - i]]

current_scope(an) == an.scope_stack[Len(an.scope_stack)]

RECURSIVE LookupAliasIn(_, _)
\* the loop of _lookup_alias over the scopes it is given, in order
LookupAliasIn(scopes, name) ==
  IF scopes = <<>> THEN <<None, None>>
  ELSE IF name \in DOMAIN Head(scopes).aliases THEN Head(scopes).aliases[name]
  ELSE LookupAliasIn(Tail(scopes), name)

\* _lookup_alias going through the stack from the module scope inwards
_lookup_alias_outermost_first(an, name) == LookupAliasIn(an.scope_stack, name)

_lookup_alias(an, name) == LookupAliasIn(Reversed(an.scope_stack), name)

RECURSIVE _dotted_name_through_subscript(_)
\* _dotted_name taking value[slice] for value
_dotted_name_through_subscript(expr) ==
  IF expr.t = "Name" THEN expr.id
  ELSE IF expr.t = "Subscript" THEN _dotted_name_through_subscript(expr.value)
  ELSE IF expr.t = "Attribute"
  THEN LET base == _dotted_name_through_subscript(expr.value)
       IN IF Truthy(base) THEN base \o expr.attr ELSE None
  ELSE None

RECURSIVE _dotted_name(_)
_dotted_name(expr) ==
  IF expr.t = "Name" THEN expr.id
  ELSE IF expr.t = "Attribute"
  THEN LET base == _dotted_name(expr.value)
       IN IF Truthy(base) THEN base \o expr.attr ELSE None
  ELSE None

RECURSIVE _call_signature(_, _)
\* None (no signature) or the pair <<module, symbol>>
_call_signature(an, call) ==
  LET func == call.func IN
  IF func.t = "Name"
  THEN LET a == _lookup_alias(an, func.id)
       IN IF Truthy(a[2]) THEN <<a[1], a[2]>> ELSE <<a[1], func.id>>
  ELSE IF func.t = "Attribute"
  THEN LET base == func.value
           attr == func.attr
       IN IF base.t = "Name"
          THEN <<Or(_lookup_alias(an, base.id)[1], base.id), attr>>
          ELSE IF base.t = "Attribute"
          THEN LET dotted == _dotted_name(base)
               IN IF Truthy(dotted) THEN <<dotted, attr>> ELSE None
          ELSE IF base.t = "Call"
          THEN LET inner == _call_signature(an, base)
               IN IF inner = None THEN None
                  ELSE LET module == inner[1]
                           obj == inner[2]
                           module_name ==
                             IF Truthy(obj)
                             THEN (IF Truthy(module) THEN module \o obj ELSE obj)
                             ELSE Or(module, <<"">>)
                       IN <<Or(module_name, obj), attr>>
          ELSE None
  ELSE None

_call_signature_from_expr(an, expr) ==
  IF expr.t = "Call" THEN _call_signature(an, expr) ELSE None

\* TARGET_SIGS.get(sig)
TargetKind(sig) == IF sig \in DOMAIN TARGET_SIGS THEN TARGET_SIGS[sig] ELSE "none"

IsTarget(sig) == sig # None /\ sig \in DOMAIN TARGET_SIGS

\* _add_record filing the record in the module scope's table instead of the
\* current scope's
_add_record_in_module_scope(an, name, kind, lineno) ==
  LET idx == Len(an.records) + 1
      by == an.scope_stack[1].by_name
      old == IF name \in DOMAIN by THEN by[name] ELSE <<>>
  IN [an EXCEPT
        !.records = Append(@, ResourceRecord(name, kind, lineno)),
        !.scope_stack =
           IF Truthy(name)
           THEN [@ EXCEPT ![1].by_name = Put(by, name, Append(old, idx))]
           ELSE @]

\* _add_record filing a record without a name under its kind tag
_add_record_filing_unnamed(an, name, kind, lineno) ==
  LET idx == Len(an.records) + 1
      top == Len(an.scope_stack)
      by == an.scope_stack[top].by_name
      key == Or(name, S(kind))
      old == IF key \in DOMAIN by THEN by[key] ELSE <<>>
  IN [an EXCEPT
        !.records = Append(@, ResourceRecord(name, kind, lineno)),
        !.scope_stack = [@ EXCEPT ![top].by_name = Put(by, key, Append(old, idx))]]

_add_record(an, name, kind, lineno) ==
  LET idx == Len(an.records) + 1
      top == Len(an.scope_stack)
      by == an.scope_stack[top].by_name
      old == IF name \in DOMAIN by THEN by[name] ELSE <<>>
  IN [an EXCEPT
        !.records = Append(@, ResourceRecord(name, kind, lineno)),
        !.scope_stack =
           IF Truthy(name)
           THEN [@ EXCEPT ![top].by_name = Put(by, name, Append(old, idx))]
           ELSE @]

RECURSIVE ScanEntries(_, _, _)
\* the inner loop of _mark_released: entries from the most recent one back;
\* the index of the first unreleased record of the kind, or 0
ScanEntries(recs, entries, kind) ==
  IF entries = <<>> THEN 0
  ELSE LET rec == recs[entries[Len(entries)]]
       IN IF ~rec.released /\ (kind = "none" \/ rec.kind = kind)
          THEN entries[Len(entries)]
          ELSE ScanEntries(recs, SubSeq(entries, 1, Len(entries) - 1), kind)

RECURSIVE ScanScopes(_, _, _, _)
\* the outer loop of _mark_released over scopes_to_check, in order
ScanScopes(recs, scopes, name, kind) ==
  IF scopes = <<>> THEN 0
  ELSE LET by == Head(scopes).by_name
           entries == IF name \in DOMAIN by THEN by[name] ELSE <<>>
           hit == ScanEntries(recs, entries, kind)
       IN IF hit # 0 THEN hit ELSE ScanScopes(recs, Tail(scopes), name, kind)

scopes_to_check(an, check_all_scopes) ==
  IF check_all_scopes THEN Reversed(an.scope_stack) ELSE <<current_scope(an)>>

\* _mark_released without the test of rec.released, flipping the flag of the
\* latest record of the name and kind
_mark_released_toggling(an, name, kind, check_all_scopes) ==
  IF ~Truthy(name) THEN an
  ELSE LET hits == {r \in DOMAIN an.records :
                      /\ an.records[r].name = name
                      /\ (kind = "none" \/ an.records[r].kind = kind)}
       IN IF hits = {} THEN an
          ELSE [an EXCEPT
                  !.records[CHOOSE r \in hits : \A q \in hits : q <= r].released = ~@]

\* _mark_released without the test of rec.kind
_mark_released_any_kind(an, name, kind, check_all_scopes) ==
  IF ~Truthy(name) THEN an
  ELSE LET hit == ScanScopes(an.records, scopes_to_check(an, check_all_scopes),
                             name, "none")
       IN IF hit = 0 THEN an ELSE [an EXCEPT !.records[hit].released = TRUE]

\* _mark_released keeping a release that found no record for the next
\* acquisition under the name
_mark_released_remembering(an, name, kind, check_all_scopes) ==
  IF ~Truthy(name) THEN an
  ELSE LET hit == ScanScopes(an.records, scopes_to_check(an, check_all_scopes),
                             name, kind)
       IN IF hit = 0
          THEN [an EXCEPT !.records =
                            Append(@, [ResourceRecord(name, kind, 0)
                                         EXCEPT !.released = TRUE])]
          ELSE [an EXCEPT !.records[hit].released = TRUE]

\* _mark_released going through the scope stack without reversed()
_mark_released_outermost_first(an, name, kind, check_all_scopes) ==
  IF ~Truthy(name) THEN an
  ELSE LET hit == ScanScopes(an.records,
                             IF check_all_scopes THEN an.scope_stack
                             ELSE <<current_scope(an)>>,
                             name, kind)
       IN IF hit = 0 THEN an ELSE [an EXCEPT !.records[hit].released = TRUE]

_mark_released(an, name, kind, check_all_scopes) ==
  IF ~Truthy(name) THEN an
  ELSE LET hit == ScanScopes(an.records, scopes_to_check(an, check_all_scopes),
                             name, kind)
       IN IF hit = 0 THEN an ELSE [an EXCEPT !.records[hit].released = TRUE]

RECURSIVE _collect_names(_)
_collect_names(node) ==
  IF node.t \in {"Tuple", "List"}
  THEN LET RECURSIVE Ext(_)
           Ext(elts) == IF elts = <<>> THEN <<>>
                        ELSE _collect_names(Head(elts)) \o Ext(Tail(elts))
       IN Ext(node.elts)
  ELSE IF node.t = "Name" THEN <<node.id>>
  ELSE IF node.t = "Attribute"
  THEN LET dotted == _dotted_name(node)
       IN IF Truthy(dotted) THEN <<dotted>> ELSE <<>>
  ELSE <<>>

RECURSIVE CollectTargets(_)
\* [name for target in targets for name in self._collect_names(target)]
CollectTargets(targets) ==
  IF targets = <<>> THEN <<>>
  ELSE _collect_names(Head(targets)) \o CollectTargets(Tail(targets))

\* the loop of _handle_assignment stopping after the first name
AddRecords_first_name(an, names, kind, lineno) ==
  IF names = <<>> THEN an ELSE _add_record(an, Head(names), kind, lineno)

RECURSIVE AddRecords(_, _, _, _)
\* for name in names: self._add_record(name, kind, value.lineno)
AddRecords(an, names, kind, lineno) ==
  IF names = <<>> THEN an
  ELSE AddRecords(_add_record(an, Head(names), kind, lineno), Tail(names),
                  kind, lineno)

\* _handle_assignment without self.assigned_calls.add(id(value))
_handle_assignment_not_marking(an, targets, value) ==
  LET sig == _call_signature_from_expr(an, value) IN
  IF sig = None THEN an
  ELSE IF ~IsTarget(sig) THEN an
  ELSE LET kind == TARGET_SIGS[sig]
           names == CollectTargets(targets)
       IN IF names = <<>> THEN _add_record(an, None, kind, value.lineno)
          ELSE AddRecords(an, names, kind, value.lineno)

_handle_assignment(an, targets, value) ==
  LET sig == _call_signature_from_expr(an, value) IN
  IF sig = None THEN an
  ELSE IF ~IsTarget(sig) THEN an
  ELSE LET kind == TARGET_SIGS[sig]
           an1 == [an EXCEPT !.assigned_calls = @ \cup {value.uid}]
           names == CollectTargets(targets)
       IN IF names = <<>> THEN _add_record(an1, None, kind, value.lineno)
          ELSE AddRecords(an1, names, kind, value.lineno)

RECURSIVE _mark_safe_calls(_, _)
RECURSIVE MarkSafeEach(_, _)
\* for arg in exprs: self._mark_safe_calls(arg)
MarkSafeEach(an, exprs) ==
  IF exprs = <<>> THEN an
  ELSE MarkSafeEach(_mark_safe_calls(an, Head(exprs)), Tail(exprs))

KeywordValues(keywords) == [i \in 1..Len(keywords) |-> keywords[i].value]

_mark_safe_calls(an, expr) ==
  IF expr.t = "Call"
  THEN LET sig == _call_signature(an, expr)
           an1 == IF IsTarget(sig)
                  THEN [an EXCEPT !.safe_calls = @ \cup {expr.uid}]
                  ELSE an
       IN MarkSafeEach(MarkSafeEach(an1, expr.args), KeywordValues(expr.keywords))
  ELSE IF expr.t = "Attribute" THEN _mark_safe_calls(an, expr.value)
  ELSE an

ContextExprs(items) == [i \in 1..Len(items) |-> items[i].context_expr]

\* _mark_context_safe looking at the first item only
_mark_context_safe_first_item(an, items) ==
  IF items = <<>> THEN an ELSE _mark_safe_calls(an, items[1].context_expr)

_mark_context_safe(an, items) == MarkSafeEach(an, ContextExprs(items))

RECURSIVE _mark_task_released_from_expr(_, _)
RECURSIVE MarkTaskEach(_, _)
\* for elt in exprs: self._mark_task_released_from_expr(elt)
MarkTaskEach(an, exprs) ==
  IF exprs = <<>> THEN an
  ELSE MarkTaskEach(_mark_task_released_from_expr(an, Head(exprs)), Tail(exprs))

\* _mark_task_released_from_expr without the branch for starred arguments
_mark_task_released_skipping_starred(an, expr) ==
  IF expr.t = "Name" THEN _mark_released(an, expr.id, "asyncio_task", TRUE)
  ELSE IF expr.t = "Call"
  THEN LET sig == _call_signature(an, expr)
       IN IF sig # None /\ TargetKind(sig) = "asyncio_task"
          THEN [an EXCEPT !.safe_calls = @ \cup {expr.uid}]
          ELSE an
  ELSE IF expr.t \in {"Tuple", "List", "Set"} THEN MarkTaskEach(an, expr.elts)
  ELSE an

_mark_task_released_from_expr(an, expr) ==
  IF expr.t = "Name" THEN _mark_released(an, expr.id, "asyncio_task", TRUE)
  ELSE IF expr.t = "Call"
  THEN LET sig == _call_signature(an, expr)
       IN IF sig # None /\ TargetKind(sig) = "asyncio_task"
          THEN [an EXCEPT !.safe_calls = @ \cup {expr.uid}]
          ELSE an
  ELSE IF expr.t = "Starred" THEN _mark_task_released_from_expr(an, expr.value)
  ELSE IF expr.t \in {"Tuple", "List", "Set"} THEN MarkTaskEach(an, expr.elts)
  ELSE an

\* for kind, methods in RELEASE_METHODS.items(): if method in methods: ...; break
\* the kind of the first entry holding the method, "none" when the loop ends
ReleaseKindFor(method) ==
  LET hit == {i \in DOMAIN RELEASE_METHODS : method \in RELEASE_METHODS[i].methods}
  IN IF hit = {} THEN "none"
     ELSE RELEASE_METHODS[CHOOSE i \in hit : \A j \in hit : i <= j].kind

\* the chained branch deciding by the kind the release loop would pick for
\* the method instead of the method set of the acquisition's own kind
ChainedRelease_by_first_kind(an, func) ==
  IF func.value.t = "Call"
  THEN LET base_sig == _call_signature(an, func.value)
       IN IF base_sig # None /\ IsTarget(base_sig)
             /\ ReleaseKindFor(func.attr) = TARGET_SIGS[base_sig]
          THEN [an EXCEPT !.safe_calls = @ \cup {func.value.uid}]
          ELSE an
  ELSE an

\* the chained branch accepting a release method of any kind
ChainedRelease_any_release_method(an, func) ==
  IF func.value.t = "Call"
  THEN LET base_sig == _call_signature(an, func.value)
       IN IF base_sig # None /\ IsTarget(base_sig)
             /\ \E k \in Kinds : func.attr \in ReleaseMethodsOf(k)
          THEN [an EXCEPT !.safe_calls = @ \cup {func.value.uid}]
          ELSE an
  ELSE an

\* the chained acquisition + cleanup branch of _handle_release
ChainedRelease(an, func) ==
  IF func.value.t = "Call"
  THEN LET base_sig == _call_signature(an, func.value)
       IN IF base_sig # None /\ IsTarget(base_sig)
             /\ func.attr \in ReleaseMethodsOf(TARGET_SIGS[base_sig])
          THEN [an EXCEPT !.safe_calls = @ \cup {func.value.uid}]
          ELSE an
  ELSE an

NamedRelease(an, func) ==
  LET name == _dotted_name(func.value)
      kind == ReleaseKindFor(func.attr)
  IN IF kind = "none" THEN an ELSE _mark_released(an, name, kind, TRUE)

\* the combinator branch without the loop over node.keywords
TaskCombinator_positional_only(an, node) ==
  LET sig == _call_signature(an, node)
  IN IF sig \in TASK_RELEASE_SIGS THEN MarkTaskEach(an, node.args) ELSE an

TaskCombinator(an, node) ==
  LET sig == _call_signature(an, node)
  IN IF sig \in TASK_RELEASE_SIGS
     THEN MarkTaskEach(MarkTaskEach(an, node.args), KeywordValues(node.keywords))
     ELSE an

_handle_release(an, node) ==
  LET func == node.func
      an1 == IF func.t = "Attribute"
             THEN NamedRelease(ChainedRelease(an, func), func)
             ELSE an
  IN TaskCombinator(an1, node)

\* visit_Call without the assigned_calls test: an assigned acquisition also
\* gets an unnamed record when its call node is visited
visit_Call_recording_assigned(an, node) ==
  LET sig == _call_signature(an, node)
      an1 == IF IsTarget(sig) /\ node.uid \notin an.safe_calls
             THEN _add_record(an, None, TARGET_SIGS[sig], node.lineno)
             ELSE an
  IN _handle_release(an1, node)

\* visit_Call up to its generic_visit
visit_Call(an, node) ==
  LET sig == _call_signature(an, node)
      an1 == IF node.uid \notin an.assigned_calls
                /\ IsTarget(sig) /\ node.uid \notin an.safe_calls
             THEN _add_record(an, None, TARGET_SIGS[sig], node.lineno)
             ELSE an
  IN _handle_release(an1, node)

\* visit_Await releasing in the current scope only
visit_Await_current_scope(an, node) ==
  IF node.value.t = "Name"
  THEN _mark_released(an, node.value.id, "asyncio_task", FALSE)
  ELSE IF node.value.t = "Call"
  THEN LET sig == _call_signature(an, node.value)
       IN IF sig # None /\ TargetKind(sig) = "asyncio_task"
          THEN [an EXCEPT !.safe_calls = @ \cup {node.value.uid}]
          ELSE an
  ELSE an

\* visit_Await marking an awaited acquisition of any kind safe
visit_Await_any_kind(an, node) ==
  IF node.value.t = "Name"
  THEN _mark_released(an, node.value.id, "asyncio_task", TRUE)
  ELSE IF node.value.t = "Call"
  THEN LET sig == _call_signature(an, node.value)
       IN IF IsTarget(sig)
          THEN [an EXCEPT !.safe_calls = @ \cup {node.value.uid}]
          ELSE an
  ELSE an

\* visit_Await up to its generic_visit
visit_Await(an, node) ==
  IF node.value.t = "Name"
  THEN _mark_released(an, node.value.id, "asyncio_task", TRUE)
  ELSE IF node.value.t = "Call"
  THEN LET sig == _call_signature(an, node.value)
       IN IF sig # None /\ TargetKind(sig) = "asyncio_task"
          THEN [an EXCEPT !.safe_calls = @ \cup {node.value.uid}]
          ELSE an
  ELSE an

\* self.current_scope.aliases[asname] = target
SetAlias(an, asname, target) ==
  [an EXCEPT !.scope_stack[Len(an.scope_stack)].aliases = Put(@, asname, target)]

RECURSIVE ImportEach_ignoring_asname(_, _)
\* the loop of visit_Import filing every module under its own name
ImportEach_ignoring_asname(an, names) ==
  IF names = <<>> THEN an
  ELSE ImportEach_ignoring_asname(
         SetAlias(an, Head(names).name, <<Head(names).name, None>>), Tail(names))

RECURSIVE ImportEach(_, _)
\* for alias in node.names: asname = alias.asname or alias.name; ...
ImportEach(an, names) ==
  IF names = <<>> THEN an
  ELSE ImportEach(SetAlias(an, Or(Head(names).asname, Head(names).name),
                           <<Head(names).name, None>>),
                  Tail(names))

visit_Import(an, node) == ImportEach(an, node.names)

RECURSIVE ImportFromEach(_, _, _)
ImportFromEach(an, module, names) ==
  IF names = <<>> THEN an
  ELSE IF Head(names).name = S("*") THEN ImportFromEach(an, module, Tail(names))
  ELSE ImportFromEach(SetAlias(an, Or(Head(names).asname, Head(names).name),
                               <<module, Head(names).name>>),
                      module, Tail(names))

\* module = node.module or ""
visit_ImportFrom(an, node) == ImportFromEach(an, Or(node.module, <<"">>), node.names)

\* _handle_return_yield treating the escape as a release: the returned name
\* is released whatever its kind and a returned acquisition is marked safe
_handle_return_yield_releasing(an, value) ==
  IF value.t = "Name" THEN _mark_released(an, value.id, "none", TRUE)
  ELSE IF value.t = "Call" THEN [an EXCEPT !.safe_calls = @ \cup {value.uid}]
  ELSE an

\* _ = value
_handle_return_yield(an, value) == an

\* visit_Return, visit_Yield and visit_YieldFrom up to their generic_visit
visit_Return(an, node) ==
  IF node.value.t # "NoNode" THEN _handle_return_yield(an, node.value) ELSE an

visit_Yield(an, node) ==
  IF node.value.t # "NoNode" THEN _handle_return_yield(an, node.value) ELSE an

visit_YieldFrom(an, node) ==
  IF node.value.t # "NoNode" THEN _handle_return_yield(an, node.value) ELSE an

\* generic_visit: the child nodes of a node, in field order (a compound
\* statement's body is iterated statement by statement, see BeginStmt)
ChildNodes(node) ==
  CASE node.t = "Expr" -> <<node.value>>
    [] node.t = "Assign" -> node.targets \o <<node.value>>
    [] node.t = "Call" -> <<node.func>> \o node.args \o KeywordValues(node.keywords)
    [] node.t = "Attribute" -> <<node.value>>
    [] node.t = "Subscript" -> <<node.value, node.slice>>
    [] node.t = "ListComp" -> <<node.elt, node.target, node.iter>>
    [] node.t \in {"Await", "Starred"} -> <<node.value>>
    [] node.t \in {"Return", "Yield", "YieldFrom"} ->
         IF node.value.t = "NoNode" THEN <<>> ELSE <<node.value>>
    [] node.t \in {"Tuple", "List", "Set"} -> node.elts
    [] node.t \in {"With", "AsyncWith"} ->
         LET RECURSIVE Items(_)
             Items(its) ==
               IF its = <<>> THEN <<>>
               ELSE <<Head(its).context_expr>>
                    \o (IF Head(its).optional_vars.t = "NoNode" THEN <<>>
                        ELSE <<Head(its).optional_vars>>)
                    \o Items(Tail(its))
         IN Items(node.items)
    [] OTHER -> <<>>

(***************************************************************************)
(* Reporter.  Python compares str by code point: KindOrder and IdentOrder  *)
(* list the kind tags and the identifiers of the explored inputs in that   *)
(* order ('.' sorts before every identifier character, so dotted names     *)
(* compare component by component).                                        *)
(***************************************************************************)
KindOrder == <<"asyncio_task", "file_handle", "popen_handle", "socket_handle">>

IdentOrder == <<"", "attr", "obj", "x", "y">>

Rank(order, v) == CHOOSE i \in DOMAIN order : order[i] = v

RECURSIVE StrLess(_, _)
StrLess(a, b) ==
  IF b = <<>> THEN FALSE
  ELSE IF a = <<>> THEN TRUE
  ELSE IF Head(a) = Head(b) THEN StrLess(Tail(a), Tail(b))
  ELSE Rank(IdentOrder, Head(a)) < Rank(IdentOrder, Head(b))

\* the sort key reduced to the line
KeyLess_by_line(r1, r2) == r1.lineno < r2.lineno

\* key=lambda r: (r.lineno, r.kind, r.name or "")
KeyLess(r1, r2) ==
  \/ r1.lineno < r2.lineno
  \/ /\ r1.lineno = r2.lineno
     /\ \/ Rank(KindOrder, r1.kind) < Rank(KindOrder, r2.kind)
        \/ /\ r1.kind = r2.kind
           /\ StrLess(Or(r1.name, <<"">>), Or(r2.name, <<"">>))

RECURSIVE InsertSorted(_, _)
\* sorted() is stable: r goes after every element that is not greater
InsertSorted(sorted, r) ==
  IF sorted = <<>> THEN <<r>>
  ELSE IF KeyLess(r, Head(sorted)) THEN <<r>> \o sorted
  ELSE <<Head(sorted)>> \o InsertSorted(Tail(sorted), r)

RECURSIVE SortedRecords(_)
SortedRecords(recs) ==
  IF recs = <<>> THEN <<>>
  ELSE InsertSorted(SortedRecords(SubSeq(recs, 1, Len(recs) - 1)), recs[Len(recs)])

\* one diagnostic line: f"{path}:{rec.lineno}\t{rec.kind}\t{message}", the
\* message being the kind's template with {name} := rec.name or rec.kind
IssueOf(rec) ==
  [lineno |-> rec.lineno, kind |-> rec.kind,
   message |-> [template |-> MESSAGE_TEMPLATES[rec.kind],
                name |-> Or(rec.name, S(rec.kind))]]

RECURSIVE IssuesOf_ignoring_released(_)
\* the loop of report without its test of rec.released
IssuesOf_ignoring_released(sorted) ==
  IF sorted = <<>> THEN <<>>
  ELSE <<IssueOf(Head(sorted))>> \o IssuesOf_ignoring_released(Tail(sorted))

RECURSIVE IssuesOf(_)
IssuesOf(sorted) ==
  IF sorted = <<>> THEN <<>>
  ELSE (IF Head(sorted).released THEN <<>> ELSE <<IssueOf(Head(sorted))>>)
       \o IssuesOf(Tail(sorted))

report(an) == IssuesOf(SortedRecords(an.records))

(***************************************************************************)
(* The traversal.                                                          *)
(***************************************************************************)
Init ==
  /\ records = <<>>
  /\ safe_calls = {}
  /\ assigned_calls = {}
  /\ scope_stack = <<Scope>>
  /\ agenda = <<>>
  /\ blocks = <<>>
  /\ line = 1
  /\ pc = "visit"
  /\ issues = <<>>
  /\ prog = <<>>
  /\ files = EmptyMap
  /\ found = <<>>
  /\ run = 1
  /\ queue = <<>>
  /\ path = ""
  /\ main_issues = <<>>
  /\ returned = EmptyMap
  /\ stdout = <<>>
  /\ stderr = <<>>

SetAnalyzer(an) ==
  /\ records' = an.records
  /\ safe_calls' = an.safe_calls
  /\ assigned_calls' = an.assigned_calls
  /\ scope_stack' = an.scope_stack

Pop(seq) == SubSeq(seq, 1, Len(seq) - 1)

FunctionTypes == {"FunctionDef", "AsyncFunctionDef"}

WithTypes == {"With", "AsyncWith"}

RECURSIVE DefLines(_)
DefLines(bs) ==
  IF bs = <<>> THEN <<>>
  ELSE (IF Head(bs).t \in FunctionTypes THEN <<Head(bs).lineno>> ELSE <<>>)
       \o DefLines(Tail(bs))

\* the scopes on the stack, each named by the line of its def (0: the module)
ScopeChain == <<0>> \o DefLines(blocks)

\* generic_visit of the enclosing body reaches its next statement, which the
\* parser put on the next line
BeginStmt(stmts, max) ==
  /\ pc = "visit"
  /\ agenda = <<>>
  /\ line <= max
  /\ IF blocks = <<>> THEN TRUE ELSE ~blocks[Len(blocks)].closed
  /\ \E s \in stmts :
       /\ agenda' = <<s>>
       /\ prog' = Append(prog, [node |-> s, chain |-> ScopeChain])
  /\ line' = line + 1
  /\ UNCHANGED <<records, safe_calls, assigned_calls, scope_stack, blocks,
                 pc, issues>>
  /\ UNCHANGED driver

VisitFunctionDef ==
  /\ pc = "visit"
  /\ agenda # <<>>
  /\ Head(agenda).t \in FunctionTypes
  /\ scope_stack' = Append(scope_stack, Scope)
  /\ blocks' = Append(blocks, [t |-> Head(agenda).t, lineno |-> Head(agenda).lineno,
                                tail |-> Head(agenda).decorator_list,
                                closed |-> FALSE])
  /\ agenda' = Tail(agenda)
  /\ UNCHANGED <<records, safe_calls, assigned_calls, line, pc, issues, prog>>
  /\ UNCHANGED driver

\* visit_FunctionDef returning without its scope_stack.pop()
LeaveFunctionDef_keeping_scope ==
  /\ pc = "visit"
  /\ agenda = <<>>
  /\ blocks # <<>>
  /\ blocks[Len(blocks)].t \in FunctionTypes
  /\ blocks[Len(blocks)].tail = <<>>
  /\ blocks' = SubSeq(blocks, 1, Len(blocks) - 1)
  /\ UNCHANGED <<records, safe_calls, assigned_calls, scope_stack, agenda, line,
                 pc, issues, prog>>
  /\ UNCHANGED driver

\* the body is exhausted: generic_visit returns and the scope is popped
LeaveFunctionDef ==
  /\ pc = "visit"
  /\ agenda = <<>>
  /\ blocks # <<>>
  /\ blocks[Len(blocks)].t \in FunctionTypes
  /\ blocks[Len(blocks)].tail = <<>>
  /\ scope_stack' = Pop(scope_stack)
  /\ blocks' = Pop(blocks)
  /\ UNCHANGED <<records, safe_calls, assigned_calls, agenda, line, pc, issues,
                 prog>>
  /\ UNCHANGED driver

\* the body of a decorated definition is exhausted: generic_visit goes on to
\* decorator_list, the scope of the function still on the stack
VisitDecorators ==
  /\ pc = "visit"
  /\ agenda = <<>>
  /\ blocks # <<>>
  /\ blocks[Len(blocks)].t \in FunctionTypes
  /\ blocks[Len(blocks)].tail # <<>>
  /\ agenda' = blocks[Len(blocks)].tail
  /\ blocks' = [blocks EXCEPT ![Len(blocks)].tail = <<>>,
                              ![Len(blocks)].closed = TRUE]
  /\ UNCHANGED <<records, safe_calls, assigned_calls, scope_stack, line, pc,
                 issues, prog>>
  /\ UNCHANGED driver

VisitWith ==
  /\ pc = "visit"
  /\ agenda # <<>>
  /\ Head(agenda).t \in WithTypes
  /\ SetAnalyzer(_mark_context_safe(Self, Head(agenda).items))
  /\ blocks' = Append(blocks, [t |-> Head(agenda).t, lineno |-> line - 1,
                                tail |-> <<>>, closed |-> FALSE])
  /\ agenda' = ChildNodes(Head(agenda)) \o Tail(agenda)
  /\ UNCHANGED <<line, pc, issues, prog>>
  /\ UNCHANGED driver

LeaveWith ==
  /\ pc = "visit"
  /\ agenda = <<>>
  /\ blocks # <<>>
  /\ blocks[Len(blocks)].t \in WithTypes
  /\ blocks' = Pop(blocks)
  /\ UNCHANGED <<records, safe_calls, assigned_calls, scope_stack, agenda, line,
                 pc, issues, prog>>
  /\ UNCHANGED driver

VisitAssign ==
  /\ pc = "visit"
  /\ agenda # <<>>
  /\ Head(agenda).t = "Assign"
  /\ SetAnalyzer(_handle_assignment(Self, Head(agenda).targets, Head(agenda).value))
  /\ agenda' = ChildNodes(Head(agenda)) \o Tail(agenda)
  /\ UNCHANGED <<blocks, line, pc, issues, prog>>
  /\ UNCHANGED driver

VisitCall ==
  /\ pc = "visit"
  /\ agenda # <<>>
  /\ Head(agenda).t = "Call"
  /\ SetAnalyzer(visit_Call(Self, Head(agenda)))
  /\ agenda' = ChildNodes(Head(agenda)) \o Tail(agenda)
  /\ UNCHANGED <<blocks, line, pc, issues, prog>>
  /\ UNCHANGED driver

VisitAwait ==
  /\ pc = "visit"
  /\ agenda # <<>>
  /\ Head(agenda).t = "Await"
  /\ SetAnalyzer(visit_Await(Self, Head(agenda)))
  /\ agenda' = ChildNodes(Head(agenda)) \o Tail(agenda)
  /\ UNCHANGED <<blocks, line, pc, issues, prog>>
  /\ UNCHANGED driver

\* a node no visit_ method is defined for
GenericVisit ==
  /\ pc = "visit"
  /\ agenda # <<>>
  /\ Head(agenda).t \notin FunctionTypes \cup WithTypes
                            \cup {"Assign", "Call", "Await", "Return", "Yield",
                                  "YieldFrom", "Import", "ImportFrom"}
  /\ agenda' = ChildNodes(Head(agenda)) \o Tail(agenda)
  /\ UNCHANGED <<records, safe_calls, assigned_calls, scope_stack, blocks, line,
                 pc, issues, prog>>
  /\ UNCHANGED driver

\* visit_Import and visit_ImportFrom do not call generic_visit
VisitImport ==
  /\ pc = "visit"
  /\ agenda # <<>>
  /\ Head(agenda).t = "Import"
  /\ SetAnalyzer(visit_Import(Self, Head(agenda)))
  /\ agenda' = Tail(agenda)
  /\ UNCHANGED <<blocks, line, pc, issues, prog>>
  /\ UNCHANGED driver

VisitImportFrom ==
  /\ pc = "visit"
  /\ agenda # <<>>
  /\ Head(agenda).t = "ImportFrom"
  /\ SetAnalyzer(visit_ImportFrom(Self, Head(agenda)))
  /\ agenda' = Tail(agenda)
  /\ UNCHANGED <<blocks, line, pc, issues, prog>>
  /\ UNCHANGED driver

VisitReturn ==
  /\ pc = "visit"
  /\ agenda # <<>>
  /\ Head(agenda).t = "Return"
  /\ SetAnalyzer(visit_Return(Self, Head(agenda)))
  /\ agenda' = ChildNodes(Head(agenda)) \o Tail(agenda)
  /\ UNCHANGED <<blocks, line, pc, issues, prog>>
  /\ UNCHANGED driver

VisitYield ==
  /\ pc = "visit"
  /\ agenda # <<>>
  /\ Head(agenda).t = "Yield"
  /\ SetAnalyzer(visit_Yield(Self, Head(agenda)))
  /\ agenda' = ChildNodes(Head(agenda)) \o Tail(agenda)
  /\ UNCHANGED <<blocks, line, pc, issues, prog>>
  /\ UNCHANGED driver

VisitYieldFrom ==
  /\ pc = "visit"
  /\ agenda # <<>>
  /\ Head(agenda).t = "YieldFrom"
  /\ SetAnalyzer(visit_YieldFrom(Self, Head(agenda)))
  /\ agenda' = ChildNodes(Head(agenda)) \o Tail(agenda)
  /\ UNCHANGED <<blocks, line, pc, issues, prog>>
  /\ UNCHANGED driver

\* report sorting self.records in place (self.records.sort(key=...))
Report_sorting_in_place ==
  /\ pc = "visit"
  /\ agenda = <<>>
  /\ blocks = <<>>
  /\ pc' = "done"
  /\ issues' = report(Self)
  /\ records' = SortedRecords(records)
  /\ UNCHANGED <<safe_calls, assigned_calls, scope_stack, agenda,
                 blocks, line, prog>>
  /\ UNCHANGED driver

\* analyzer.visit(tree) has returned: analyzer.report(display)
Report ==
  /\ pc = "visit"
  /\ agenda = <<>>
  /\ blocks = <<>>
  /\ pc' = "done"
  /\ issues' = report(Self)
  /\ UNCHANGED <<records, safe_calls, assigned_calls, scope_stack, agenda,
                 blocks, line, prog>>
  /\ UNCHANGED driver

Visit ==
  \/ VisitFunctionDef
  \/ LeaveFunctionDef
  \/ VisitWith
  \/ LeaveWith
  \/ VisitAssign
  \/ VisitCall
  \/ VisitAwait
  \/ GenericVisit
  \/ Report

(***************************************************************************)
(* The explored inputs: statements as the parser yields them for line L.   *)
(* Callee(k) is the unaliased spelling of one acquisition of kind k.       *)
(***************************************************************************)
Callee(k) ==
  CASE k = "file_handle" -> Name("open")
    [] k = "socket_handle" -> Attribute(Name("socket"), "socket")
    [] k = "popen_handle" -> Attribute(Name("subprocess"), "Popen")
    [] k = "asyncio_task" -> Attribute(Name("asyncio"), "create_task")

Methods == {"close", "shutdown", "wait", "communicate", "terminate", "kill", "cancel"}

\* acquire_k()                        the i-th call of line L
Acquire(k, L, i) == Call(<<L, i>>, L, Callee(k), <<>>, <<>>)

\* acquire_k()                        as a statement
AcquireStmt(L, k) == Expr(Acquire(k, L, 1))

\* x = acquire_k()
BindStmt(L, x, k) == Assign(<<Name(x)>>, Acquire(k, L, 1))

\* x.m()
ReleaseStmt(L, x, m) == Expr(Call(<<L, 1>>, L, Attribute(Name(x), m), <<>>, <<>>))

\* acquire_k().m()
ChainedStmt(L, k, m) ==
  Expr(Call(<<L, 1>>, L, Attribute(Acquire(k, L, 2), m), <<>>, <<>>))

\* with acquire_k():   /   async with acquire_k():
WithStmt(L, t, k) == With(t, <<WithItem(Acquire(k, L, 1), NoNode)>>)

\* await x
AwaitNameStmt(L, x) == Expr(Await(Name(x)))

\* await acquire_k()
AwaitFreshStmt(L, k) == Expr(Await(Acquire(k, L, 1)))

\* asyncio.<combinator>(args..., kw=...)
CombinatorCall(L, combinator, args, keywords) ==
  Call(<<L, 0>>, L, Attribute(Name("asyncio"), combinator), args, keywords)

\* def f():   /   async def f():
DefStmt(L, t) == FunctionDef(t, L)

AlphaAcquire(L) ==
  {BindStmt(L, "x", k) : k \in Kinds}
  \cup {AcquireStmt(L, k) : k \in Kinds}
  \cup {ReleaseStmt(L, "x", m) : m \in {"close", "shutdown", "wait", "cancel"}}
  \cup {AwaitNameStmt(L, "x"), DefStmt(L, "FunctionDef"),
        WithStmt(L, "With", "file_handle")}

Next == BeginStmt(AlphaAcquire(line), MaxStmts) \/ Visit

Spec == Init /\ [][Next]_vars

\* programs that bind one name and call release methods on it
AlphaRelease(L) ==
  {BindStmt(L, "x", k) : k \in Kinds}
  \cup {ReleaseStmt(L, "x", m) : m \in Methods}
  \cup {WithStmt(L, "With", "file_handle"), WithStmt(L, "With", "socket_handle"),
        ChainedStmt(L, "socket_handle", "close"),
        ChainedStmt(L, "popen_handle", "wait"),
        AwaitNameStmt(L, "x"), DefStmt(L, "FunctionDef")}

NextRelease == BeginStmt(AlphaRelease(line), MaxStmts) \/ Visit

SpecRelease == Init /\ [][NextRelease]_vars

\* programs of nested functions around one file or socket bound to one name
AlphaNest(L) ==
  {BindStmt(L, "x", "file_handle"), BindStmt(L, "x", "socket_handle"),
   ReleaseStmt(L, "x", "close"),
   DefStmt(L, "FunctionDef"), DefStmt(L, "AsyncFunctionDef"),
   WithStmt(L, "With", "file_handle"), AwaitNameStmt(L, "x")}

NextNest == BeginStmt(AlphaNest(line), MaxNestStmts) \/ Visit

SpecNest == Init /\ [][NextNest]_vars

\* the same programs, shorter, for the shape of the scope stack
NextScope == BeginStmt(AlphaNest(line), MaxScopeStmts) \/ Visit

SpecScope == Init /\ [][NextScope]_vars

\* programs of with statements around plain acquisitions and releases
AlphaWith(L) ==
  {WithStmt(L, "With", k) : k \in {"file_handle", "socket_handle", "asyncio_task"}}
  \cup {WithStmt(L, "AsyncWith", "file_handle"),
        With("With", <<WithItem(Acquire("popen_handle", L, 1), Name("x"))>>),
        With("With", <<WithItem(Acquire("file_handle", L, 1), NoNode),
                       WithItem(Acquire("socket_handle", L, 2), Name("x"))>>),
        BindStmt(L, "x", "file_handle"), AcquireStmt(L, "socket_handle"),
        ReleaseStmt(L, "x", "close"), AwaitNameStmt(L, "x"),
        DefStmt(L, "FunctionDef")}

NextWith == BeginStmt(AlphaWith(line), MaxStmts) \/ Visit

SpecWith == Init /\ [][NextWith]_vars

\* programs of acquisitions released in the expression that creates them
AlphaChain(L) ==
  UNION {{ChainedStmt(L, k, m[1]) : m \in ReleaseMethodsOf(k)} : k \in Kinds}
  \cup {ChainedStmt(L, "file_handle", "wait"),
        BindStmt(L, "x", "file_handle"), ReleaseStmt(L, "x", "close"),
        AwaitNameStmt(L, "x"), DefStmt(L, "FunctionDef"),
        WithStmt(L, "With", "file_handle")}

NextChain == BeginStmt(AlphaChain(line), MaxStmts) \/ Visit

SpecChain == Init /\ [][NextChain]_vars

\* asyncio.<combinator>(...) as a statement, and awaited
CombinatorStmt(L, combinator, args, keywords) ==
  Expr(CombinatorCall(L, combinator, args, keywords))

Task(L, i) == Acquire("asyncio_task", L, i)

\* programs of tasks: bound, awaited by name, awaited fresh, cancelled
AlphaTask(L) ==
  {BindStmt(L, "x", "asyncio_task"), BindStmt(L, "x", "file_handle"),
   AwaitNameStmt(L, "x"), ReleaseStmt(L, "x", "cancel"),
   AwaitFreshStmt(L, "asyncio_task"), AwaitFreshStmt(L, "file_handle"),
   AwaitFreshStmt(L, "popen_handle"),
   DefStmt(L, "AsyncFunctionDef"), WithStmt(L, "AsyncWith", "file_handle")}

NextTask == BeginStmt(AlphaTask(line), MaxStmts) \/ Visit

SpecTask == Init /\ [][NextTask]_vars

\* programs handing fresh tasks to the task-consuming combinators
AlphaCombinator(L) ==
  {CombinatorStmt(L, "gather", <<Task(L, 1)>>, <<>>),
   CombinatorStmt(L, "gather", <<Starred(ListNode(<<Task(L, 1), Task(L, 2)>>))>>, <<>>),
   CombinatorStmt(L, "wait", <<SetNode(<<Task(L, 1)>>)>>, <<>>),
   CombinatorStmt(L, "wait_for", <<Task(L, 1)>>, <<Keyword("timeout", Constant)>>),
   CombinatorStmt(L, "wait", <<>>,
                  <<Keyword("fs", TupleNode(<<ListNode(<<Task(L, 1)>>)>>))>>),
   CombinatorStmt(L, "gather", <<Task(L, 1), Acquire("file_handle", L, 2)>>, <<>>),
   Expr(Await(CombinatorCall(L, "gather",
                             <<Task(L, 1), Starred(TupleNode(<<Task(L, 2)>>))>>, <<>>))),
   BindStmt(L, "x", "asyncio_task"), AwaitNameStmt(L, "x"),
   DefStmt(L, "AsyncFunctionDef"), WithStmt(L, "AsyncWith", "file_handle")}

NextCombinator == BeginStmt(AlphaCombinator(line), MaxStmts) \/ Visit

SpecCombinator == Init /\ [][NextCombinator]_vars

\* programs handing named tasks to the task-consuming combinators
AlphaNamed(L) ==
  {BindStmt(L, "x", "asyncio_task"), BindStmt(L, "y", "asyncio_task"),
   BindStmt(L, "x", "file_handle"),
   CombinatorStmt(L, "gather", <<Name("x"), Name("y")>>, <<>>),
   CombinatorStmt(L, "gather", <<Name("x"), Name("x")>>, <<>>),
   CombinatorStmt(L, "gather",
                  <<Starred(TupleNode(<<Name("x"), ListNode(<<Name("y")>>)>>))>>, <<>>),
   CombinatorStmt(L, "wait", <<SetNode(<<Name("x")>>)>>, <<>>),
   CombinatorStmt(L, "wait_for", <<Name("y")>>, <<Keyword("timeout", Constant)>>),
   CombinatorStmt(L, "wait", <<>>, <<Keyword("fs", ListNode(<<Name("x")>>))>>),
   Expr(Await(CombinatorCall(L, "gather", <<Name("y")>>, <<>>))),
   DefStmt(L, "AsyncFunctionDef"), WithStmt(L, "AsyncWith", "file_handle")}

NextNamed == BeginStmt(AlphaNamed(line), MaxStmts) \/ Visit

SpecNamed == Init /\ [][NextNamed]_vars

\* programs that return or yield what they acquire
AlphaEscape(L) ==
  {BindStmt(L, "x", k) : k \in {"file_handle", "socket_handle", "asyncio_task"}}
  \cup {Return(Name("x")), Return(NoNode),
        Return(Acquire("file_handle", L, 1)), Return(Acquire("popen_handle", L, 1)),
        Expr(Yield(Name("x"))), Expr(Yield(Acquire("socket_handle", L, 1))),
        Expr(YieldFrom(Name("x"))), Expr(YieldFrom(Acquire("file_handle", L, 1))),
        Assign(<<Name("x")>>, Yield(Acquire("file_handle", L, 1))),
        ReleaseStmt(L, "x", "close"), AwaitNameStmt(L, "x"),
        DefStmt(L, "FunctionDef"), WithStmt(L, "With", "file_handle")}

VisitEscape == VisitReturn \/ VisitYield \/ VisitYieldFrom

NextEscape == BeginStmt(AlphaEscape(line), MaxStmts) \/ Visit \/ VisitEscape

SpecEscape == Init /\ [][NextEscape]_vars

\* f(socket.socket(), open())        two acquisitions on one line
TwoAcquires(L, f) ==
  Call(<<L, 0>>, L, Name(f),
       <<Acquire("socket_handle", L, 1), Acquire("file_handle", L, 2)>>, <<>>)

\* programs whose records share lines, differ in kind and name, and are
\* created out of line order (a decorator is visited after the body)
AlphaReport(L) ==
  {Assign(<<Name("y"), Name("x")>>, Acquire("file_handle", L, 1)),
   Assign(<<Attribute(Name("obj"), "attr")>>, Acquire("popen_handle", L, 1)),
   BindStmt(L, "x", "socket_handle"), AcquireStmt(L, "asyncio_task"),
   Expr(TwoAcquires(L, "print")),
   ReleaseStmt(L, "x", "close"), ReleaseStmt(L, "y", "close"),
   AwaitNameStmt(L, "x"),
   DecoratedDef("FunctionDef", L, <<TwoAcquires(L, "deco")>>),
   DefStmt(L, "FunctionDef"), WithStmt(L, "With", "file_handle")}

NextReport == BeginStmt(AlphaReport(line), MaxStmts) \/ Visit \/ VisitDecorators

SpecReport == Init /\ [][NextReport]_vars

\* analyzer.report(display) called once more on the same analyzer
ReportAgain ==
  /\ pc = "done"
  /\ pc' = "reported"
  /\ issues' = report(Self)
  /\ UNCHANGED <<records, safe_calls, assigned_calls, scope_stack, agenda,
                 blocks, line, prog>>
  /\ UNCHANGED driver

NextReportTwice ==
  BeginStmt(AlphaReport(line), MaxStmts) \/ Visit \/ VisitDecorators \/ ReportAgain

SpecReportTwice == Init /\ [][NextReportTwice]_vars

\* the registry signatures that have a module
AliasableSigs == {sig \in DOMAIN TARGET_SIGS : sig[1] # None} \cup TASK_RELEASE_SIGS

\* a.symbol(args...)                 through the module alias a
CallVia(L, symbol, args) ==
  Call(<<L, 0>>, L, Attribute(Name("a"), symbol[1]), args, <<>>)

\* t(args...)                        through the symbol alias t
CallT(L, args) == Call(<<L, 0>>, L, Name("t"), args, <<>>)

\* programs that import the registry's modules and symbols under the aliases
\* a and t and call through them
AlphaAlias(L) ==
  {Import(<<Alias(sig[1], S("a"))>>) : sig \in AliasableSigs}
  \cup {ImportFrom(sig[1], <<Alias(sig[2], S("t"))>>) : sig \in AliasableSigs}
  \cup {Import(<<Alias(S("socket"), None)>>),
        ImportFrom(S("asyncio"), <<Alias(S("*"), None)>>)}
  \cup {Expr(CallVia(L, sig[2], <<>>)) : sig \in DOMAIN TARGET_SIGS}
  \cup {Expr(CallVia(L, sig[2], <<Task(L, 1)>>)) : sig \in TASK_RELEASE_SIGS}
  \cup {Expr(CallT(L, <<>>)), Expr(CallT(L, <<Task(L, 1)>>)),
        Assign(<<Name("x")>>, CallT(L, <<>>)),
        With("With", <<WithItem(CallT(L, <<>>), NoNode)>>),
        Expr(Await(CallVia(L, S("gather"), <<Task(L, 1)>>))),
        DefStmt(L, "FunctionDef")}

VisitImports == VisitImport \/ VisitImportFrom

NextAlias == BeginStmt(AlphaAlias(line), MaxAliasStmts) \/ Visit \/ VisitImports

SpecAlias == Init /\ [][NextAlias]_vars

\* programs that bind the aliases a and t at module level and inside
\* functions, to different modules, and call through them
AlphaShadow(L) ==
  {Import(<<Alias(S("socket"), S("a"))>>),
   Import(<<Alias(S("subprocess"), S("a"))>>),
   ImportFrom(S("socket"), <<Alias(S("socket"), S("t"))>>),
   Expr(CallVia(L, S("socket"), <<>>)),
   Expr(Await(CallVia(L, S("Popen"), <<>>))),
   Assign(<<Name("x")>>, CallT(L, <<>>)),
   With("With", <<WithItem(CallT(L, <<>>), NoNode)>>),
   DefStmt(L, "FunctionDef")}

NextShadow == BeginStmt(AlphaShadow(line), MaxShadowStmts) \/ Visit \/ VisitImports

SpecShadow == Init /\ [][NextShadow]_vars

\* programs of acquisitions bound to no name, among release events for the
\* names file_handle and asyncio_task, which the report gives such records
AlphaUnnamed(L) ==
  {AcquireStmt(L, "file_handle"), AcquireStmt(L, "asyncio_task"),
   Assign(<<Subscript(Name("d"), Constant)>>, Acquire("file_handle", L, 1)),
   ChainedStmt(L, "file_handle", "close"), ChainedStmt(L, "file_handle", "wait"),
   AwaitFreshStmt(L, "asyncio_task"), AwaitFreshStmt(L, "file_handle"),
   BindStmt(L, "file_handle", "file_handle"),
   ReleaseStmt(L, "file_handle", "close"), AwaitNameStmt(L, "asyncio_task"),
   CombinatorStmt(L, "gather", <<Task(L, 1), Name("asyncio_task")>>, <<>>),
   DefStmt(L, "FunctionDef"), WithStmt(L, "With", "file_handle")}

NextUnnamed == BeginStmt(AlphaUnnamed(line), MaxStmts) \/ Visit

SpecUnnamed == Init /\ [][NextUnnamed]_vars

\* programs that bind one name to resources of every kind and release it by
\* method call, by await and through a combinator
AlphaKinds(L) ==
  {BindStmt(L, "x", k) : k \in Kinds}
  \cup {ReleaseStmt(L, "x", m) : m \in {"close", "shutdown", "wait", "cancel"}}
  \cup {AwaitNameStmt(L, "x"),
        CombinatorStmt(L, "gather", <<Name("x")>>, <<>>),
        DefStmt(L, "FunctionDef"), WithStmt(L, "With", "file_handle")}

NextKinds == BeginStmt(AlphaKinds(line), MaxStmts) \/ Visit

SpecKinds == Init /\ [][NextKinds]_vars

\* programs of nested functions around a file or a task bound to one name and
\* the three forms of release event for that name
AlphaLater(L) ==
  {BindStmt(L, "x", "file_handle"), BindStmt(L, "x", "asyncio_task"),
   ReleaseStmt(L, "x", "close"), AwaitNameStmt(L, "x"),
   CombinatorStmt(L, "gather", <<Name("x")>>, <<>>),
   DefStmt(L, "FunctionDef"), WithStmt(L, "With", "file_handle")}

NextLater == BeginStmt(AlphaLater(line), MaxScopeStmts) \/ Visit

SpecLater == Init /\ [][NextLater]_vars

\* obj.attr.m()
AttrReleaseStmt(L, m) ==
  Expr(Call(<<L, 1>>, L, Attribute(Attribute(Name("obj"), "attr"), m), <<>>, <<>>))

\* programs that assign one acquisition to several targets: chained, unpacked
\* (nested, with a subscript, with one name twice) and an attribute path
AlphaMulti(L) ==
  {Assign(<<Name("y"), Name("x")>>, Acquire("file_handle", L, 1)),
   Assign(<<TupleNode(<<Name("x"),
                        ListNode(<<Name("y"), Attribute(Name("obj"), "attr")>>)>>)>>,
          Acquire("socket_handle", L, 1)),
   Assign(<<Attribute(Name("obj"), "attr")>>, Acquire("popen_handle", L, 1)),
   Assign(<<Name("x"), TupleNode(<<Subscript(Name("d"), Constant), Name("x")>>)>>,
          Acquire("file_handle", L, 1)),
   ReleaseStmt(L, "x", "close"), ReleaseStmt(L, "y", "shutdown"),
   AttrReleaseStmt(L, "wait"), AwaitNameStmt(L, "x"),
   DefStmt(L, "FunctionDef"), WithStmt(L, "With", "file_handle")}

NextMulti == BeginStmt(AlphaMulti(line), MaxStmts) \/ Visit

SpecMulti == Init /\ [][NextMulti]_vars

\* programs of acquisitions that are assignment values (to one name, two,
\* none) beside acquisitions that are arguments, statements or marked safe
AlphaAssigned(L) ==
  {BindStmt(L, "x", "file_handle"),
   Assign(<<Name("y"), Name("x")>>, Acquire("file_handle", L, 1)),
   Assign(<<Subscript(Name("d"), Constant)>>, Acquire("socket_handle", L, 1)),
   Assign(<<Name("x")>>,
          Call(<<L, 1>>, L, Callee("file_handle"),
               <<Acquire("socket_handle", L, 2)>>, <<>>)),
   Assign(<<Name("x")>>,
          Call(<<L, 0>>, L, Name("print"), <<Acquire("file_handle", L, 1)>>, <<>>)),
   Assign(<<Name("x")>>, Await(Task(L, 1))),
   AcquireStmt(L, "file_handle"), ChainedStmt(L, "file_handle", "close"),
   AwaitFreshStmt(L, "asyncio_task"), ReleaseStmt(L, "x", "close"),
   DefStmt(L, "FunctionDef"), WithStmt(L, "With", "file_handle")}

NextAssigned == BeginStmt(AlphaAssigned(line), MaxStmts) \/ Visit

SpecAssigned == Init /\ [][NextAssigned]_vars

\* wrap(args..., kw=...)              a call of no resource; the i-th call
\* of line L
Wrap(L, i, args, keywords) == Call(<<L, i>>, L, Name("wrap"), args, keywords)

\* with <call>:
WithCall(call) == With("With", <<WithItem(call, NoNode)>>)

\* programs of with items whose context expression is a call that holds
\* acquisitions in its arguments: as an argument, as the argument of an
\* argument, by keyword, in a list, starred, and as the receiver of a method
\* call or of an attribute that is an argument
AlphaDeepWith(L) ==
  {WithCall(Call(<<L, 1>>, L, Callee("file_handle"),
                 <<Acquire("socket_handle", L, 2)>>, <<>>)),
   WithCall(Wrap(L, 1, <<Wrap(L, 2, <<>>,
                              <<Keyword("k", Acquire("socket_handle", L, 3))>>)>>,
                 <<>>)),
   WithCall(Wrap(L, 1, <<ListNode(<<Acquire("file_handle", L, 2)>>)>>, <<>>)),
   WithCall(Wrap(L, 1, <<Starred(ListNode(<<Acquire("file_handle", L, 2)>>))>>, <<>>)),
   WithCall(Wrap(L, 1, <<Call(<<L, 2>>, L,
                              Attribute(Acquire("file_handle", L, 3), "read"),
                              <<>>, <<>>)>>, <<>>)),
   WithCall(Wrap(L, 1, <<Attribute(Acquire("file_handle", L, 2), "raw")>>, <<>>)),
   BindStmt(L, "x", "file_handle"), ReleaseStmt(L, "x", "close"),
   AwaitNameStmt(L, "x"), DefStmt(L, "FunctionDef")}

NextDeepWith == BeginStmt(AlphaDeepWith(line), MaxStmts) \/ Visit

SpecDeepWith == Init /\ [][NextDeepWith]_vars

\* x.m()                              the i-th call of line L
Release(L, i, x, m) == Call(<<L, i>>, L, Attribute(Name(x), m), <<>>, <<>>)

\* programs of acquisitions and releases inside the arguments, keyword
\* arguments and comprehensions of calls
AlphaDeep(L) ==
  {Expr(Wrap(L, 0, <<Wrap(L, 1, <<Acquire("file_handle", L, 2)>>, <<>>)>>,
             <<Keyword("k", Acquire("socket_handle", L, 3))>>)),
   Expr(Wrap(L, 0, <<ListComp(Acquire("file_handle", L, 1), Name("p"), Name("ps"))>>,
             <<>>)),
   Expr(Call(<<L, 0>>, L, Callee("file_handle"),
             <<Acquire("socket_handle", L, 1)>>, <<>>)),
   Assign(<<Name("y")>>, Wrap(L, 0, <<Acquire("file_handle", L, 1)>>, <<>>)),
   Expr(Wrap(L, 0, <<Wrap(L, 1, <<>>, <<Keyword("k", Release(L, 2, "x", "close"))>>)>>,
             <<>>)),
   Expr(Wrap(L, 0, <<ListComp(Release(L, 1, "x", "close"), Name("p"), Name("ps"))>>,
             <<>>)),
   BindStmt(L, "x", "file_handle"), BindStmt(L, "x", "socket_handle"),
   AwaitNameStmt(L, "x"), DefStmt(L, "FunctionDef"),
   WithStmt(L, "With", "file_handle")}

NextDeep == BeginStmt(AlphaDeep(line), MaxStmts) \/ Visit

SpecDeep == Init /\ [][NextDeep]_vars

\* func(args...)                      the call of a computed callee
Computed(L, func, args) == Call(<<L, 0>>, L, func, args, <<>>)

\* programs of calls whose callee is subscripted or itself the result of a
\* call, as statements, assigned, awaited and as with items, among bindings
\* of the name they mention
AlphaComputed(L) ==
  {Expr(Computed(L, Subscript(Name("d"), Constant), <<Acquire("file_handle", L, 1)>>)),
   Expr(Computed(L, Subscript(Name("d"), Constant), <<Name("x")>>)),
   Expr(Computed(L, Attribute(Subscript(Name("x"), Constant), "close"), <<>>)),
   Expr(Computed(L, Attribute(Attribute(Subscript(Name("x"), Constant), "f"), "cancel"),
                 <<>>)),
   Expr(Computed(L, Wrap(L, 1, <<>>, <<>>), <<Name("x")>>)),
   Assign(<<Name("y")>>,
          Computed(L, Subscript(Name("d"), Acquire("socket_handle", L, 1)), <<>>)),
   WithCall(Computed(L, Subscript(Name("d"), Constant), <<>>)),
   Expr(Await(Computed(L, Subscript(Name("d"), Constant), <<>>))),
   BindStmt(L, "x", "file_handle"), BindStmt(L, "x", "asyncio_task"),
   DefStmt(L, "FunctionDef")}

NextComputed == BeginStmt(AlphaComputed(line), MaxStmts) \/ Visit

SpecComputed == Init /\ [][NextComputed]_vars

\* programs chaining every acquisition with every release method and with
\* read, which is no release method
AlphaChainKind(L) ==
  {ChainedStmt(L, k, m) : k \in Kinds, m \in Methods \cup {"read"}}
  \cup {BindStmt(L, "x", "file_handle"), ReleaseStmt(L, "x", "close"),
        AwaitNameStmt(L, "x"), DefStmt(L, "FunctionDef"),
        WithStmt(L, "With", "file_handle")}

NextChainKind == BeginStmt(AlphaChainKind(line), MaxChainStmts) \/ Visit

SpecChainKind == Init /\ [][NextChainKind]_vars

\* obj.attr = acquire_k()
AttrBindStmt(L, k) == Assign(<<Attribute(Name("obj"), "attr")>>, Acquire(k, L, 1))

\* await obj.attr
AwaitAttrStmt(L) == Expr(Await(Attribute(Name("obj"), "attr")))

\* programs that bind resources of every kind to the attribute path obj.attr
\* and release by method call on the path and by await of the path, next to
\* a task bound to the bare name obj and events on that name
AlphaAttr(L) ==
  {AttrBindStmt(L, k) : k \in Kinds}
  \cup {AttrReleaseStmt(L, m) : m \in {"close", "shutdown", "wait", "cancel"}}
  \cup {AwaitAttrStmt(L), AwaitNameStmt(L, "obj"),
        BindStmt(L, "obj", "asyncio_task"), ReleaseStmt(L, "obj", "close"),
        DefStmt(L, "FunctionDef"), WithStmt(L, "With", "file_handle")}

NextAttr == BeginStmt(AlphaAttr(line), MaxStmts) \/ Visit

SpecAttr == Init /\ [][NextAttr]_vars

(***************************************************************************)
(* Abnormal termination.  Every level of an expression costs the visitor   *)
(* Python frames (visit, generic_visit), and the interpreter raises         *)
(* RecursionError when they run out: the visit of a node nested deeper in   *)
(* its statement than MaxNesting may raise.  No method of the analyzer has  *)
(* a try statement, so the exception leaves every visit_ frame on its way   *)
(* at the call of generic_visit, and then analyze and main.                 *)
(***************************************************************************)
RECURSIVE Height(_)
RECURSIVE HeightOfEach(_)
HeightOfEach(ns) ==
  IF ns = <<>> THEN 0
  ELSE LET h == Height(Head(ns))
           rest == HeightOfEach(Tail(ns))
       IN IF h > rest THEN h ELSE rest

\* the number of nodes on the longest path from n down to a leaf
Height(n) == 1 + HeightOfEach(ChildNodes(n))

RECURSIVE DeepAttr(_)
\* x.a.a ... .a                      with n attribute accesses
DeepAttr(n) == IF n = 0 THEN Name("x") ELSE Attribute(DeepAttr(n - 1), "a")

\* the visit of a node nested too deep raises
VisitRaise ==
  /\ pc = "visit"
  /\ agenda # <<>>
  /\ Height(prog[Len(prog)].node) - Height(Head(agenda)) > MaxNesting
  /\ pc' = "raising"
  /\ agenda' = <<>>
  /\ UNCHANGED <<records, safe_calls, assigned_calls, scope_stack, blocks, line,
                 issues, prog>>
  /\ UNCHANGED driver

\* the exception leaves the visit_ frame of the innermost open with or def:
\* the statement after its generic_visit call (for a def, scope_stack.pop())
\* is not executed
Unwind ==
  /\ pc = "raising"
  /\ blocks # <<>>
  /\ blocks' = Pop(blocks)
  /\ UNCHANGED <<records, safe_calls, assigned_calls, scope_stack, agenda, line,
                 pc, issues, prog>>
  /\ UNCHANGED driver

\* the exception leaves analyzer.visit(tree), analyze and main
Propagate ==
  /\ pc = "raising"
  /\ blocks = <<>>
  /\ pc' = "crashed"
  /\ UNCHANGED <<records, safe_calls, assigned_calls, scope_stack, agenda,
                 blocks, line, issues, prog>>
  /\ UNCHANGED driver

Abort == VisitRaise \/ Unwind \/ Propagate

\* programs with an expression nested one level deeper than the visitor can
\* follow, at module level, in functions and in with blocks
AlphaAbort(L) ==
  {Expr(DeepAttr(MaxNesting + 1)), Expr(DeepAttr(MaxNesting - 1)),
   Assign(<<Name("y")>>, DeepAttr(MaxNesting + 1)),
   BindStmt(L, "x", "file_handle"), AcquireStmt(L, "socket_handle"),
   AwaitNameStmt(L, "x"),
   DefStmt(L, "FunctionDef"), DefStmt(L, "AsyncFunctionDef"),
   WithStmt(L, "With", "file_handle")}

NextAbort == BeginStmt(AlphaAbort(line), MaxStmts) \/ Visit \/ Abort

SpecAbort == Init /\ [][NextAbort]_vars

(***************************************************************************)
(* main: the batch over the files of a project.  files gives, per path,    *)
(* what reading and parsing the file does; found is the order in which     *)
(* collect_files enumerates the paths in each of two runs over the same    *)
(* files.  The first run analyzes every file; the second meets the same    *)
(* files, so analyze returns for each what it returned before.  A line of  *)
(* output is a diagnostic of report with the display path of its file.     *)
(***************************************************************************)
\* the explored paths, in ascending order of str(p) ('.' sorts before '/')
PathOrder == <<"a.py", "a/b.py", "b.py", "c.py">>

Paths == {PathOrder[i] : i \in 1..MaxFiles}

Conditions == {"source", "unreadable", "unparseable", "undecodable"}

\* the orders in which rglob may yield a set of paths
Enumerations(ps) ==
  {e \in [1..Cardinality(ps) -> ps] : \A i, j \in DOMAIN e : e[i] = e[j] => i = j}

RECURSIVE InsertPath(_, _)
InsertPath(sorted, p) ==
  IF sorted = <<>> THEN <<p>>
  ELSE IF Rank(PathOrder, p) < Rank(PathOrder, Head(sorted)) THEN <<p>> \o sorted
  ELSE <<Head(sorted)>> \o InsertPath(Tail(sorted), p)

\* main iterating the paths in the order collect_files returned them
SortedPaths_as_found(ps) == ps

RECURSIVE SortedPaths(_)
\* sorted(collect_files(root), key=lambda p: str(p))
SortedPaths(ps) ==
  IF ps = <<>> THEN <<>>
  ELSE InsertPath(SortedPaths(SubSeq(ps, 1, Len(ps) - 1)), ps[Len(ps)])

\* f"{path}:{rec.lineno}\t{rec.kind}\t{message}" for the lines of one file
LinesOf(p, ds) ==
  [i \in DOMAIN ds |-> [file |-> p, lineno |-> ds[i].lineno, kind |-> ds[i].kind,
                        message |-> ds[i].message]]

\* print(f"WARN: Could not read {path}: {e}", file=sys.stderr) and its like
Warning(p) ==
  [file |-> p,
   text |-> IF files[p] = "unreadable" THEN "WARN: Could not read"
            ELSE "WARN: Syntax error in"]

InitBatch ==
  /\ records = <<>>
  /\ safe_calls = {}
  /\ assigned_calls = {}
  /\ scope_stack = <<Scope>>
  /\ agenda = <<>>
  /\ blocks = <<>>
  /\ line = 1
  /\ pc = "main"
  /\ issues = <<>>
  /\ prog = <<>>
  /\ files \in [Paths -> Conditions]
  /\ found \in Enumerations(Paths) \X Enumerations(Paths)
  /\ run = 1
  /\ queue = <<>>
  /\ path = ""
  /\ main_issues = <<>>
  /\ returned = EmptyMap
  /\ stdout = <<>>
  /\ stderr = <<>>

\* issues = []; for path in sorted(collect_files(root), key=...):
Main_Collect ==
  /\ pc = "main"
  /\ queue' = SortedPaths(found[run])
  /\ main_issues' = <<>>
  /\ pc' = "loop"
  /\ UNCHANGED <<records, safe_calls, assigned_calls, scope_stack, agenda,
                 blocks, line, issues, prog>>
  /\ UNCHANGED <<files, found, run, path, returned, stdout, stderr>>

\* analyze letting the OSError or SyntaxError propagate
Analyze_Skip_raising ==
  /\ pc = "loop"
  /\ run = 1
  /\ queue # <<>>
  /\ files[Head(queue)] \in {"unreadable", "unparseable"}
  /\ pc' = "crashed"
  /\ UNCHANGED <<records, safe_calls, assigned_calls, scope_stack, agenda,
                 blocks, line, issues, prog>>
  /\ UNCHANGED driver

\* analyze: read_text raises OSError, or ast.parse raises SyntaxError
Analyze_Skip ==
  /\ pc = "loop"
  /\ run = 1
  /\ queue # <<>>
  /\ files[Head(queue)] \in {"unreadable", "unparseable"}
  /\ stderr' = Append(stderr, Warning(Head(queue)))
  /\ returned' = Put(returned, Head(queue), <<>>)
  /\ queue' = Tail(queue)
  /\ UNCHANGED <<records, safe_calls, assigned_calls, scope_stack, agenda,
                 blocks, line, pc, issues, prog>>
  /\ UNCHANGED <<files, found, run, path, main_issues, stdout>>

\* analyze: read_text raises UnicodeDecodeError, a ValueError that neither
\* analyze nor main catches
Analyze_Raise ==
  /\ pc = "loop"
  /\ run = 1
  /\ queue # <<>>
  /\ files[Head(queue)] = "undecodable"
  /\ pc' = "crashed"
  /\ UNCHANGED <<records, safe_calls, assigned_calls, scope_stack, agenda,
                 blocks, line, issues, prog>>
  /\ UNCHANGED driver

\* analyze: analyzer = Analyzer(tree); analyzer.visit(tree)
Analyze_Visit ==
  /\ pc = "loop"
  /\ run = 1
  /\ queue # <<>>
  /\ files[Head(queue)] = "source"
  /\ path' = Head(queue)
  /\ queue' = Tail(queue)
  /\ pc' = "visit"
  /\ UNCHANGED <<records, safe_calls, assigned_calls, scope_stack, agenda,
                 blocks, line, issues, prog>>
  /\ UNCHANGED <<files, found, run, main_issues, returned, stdout, stderr>>

\* return analyzer.report(display); issues.extend(...)
Analyze_Return ==
  /\ pc = "done"
  /\ main_issues' = main_issues \o LinesOf(path, issues)
  /\ returned' = Put(returned, path, LinesOf(path, issues))
  /\ path' = ""
  /\ pc' = "loop"
  /\ records' = <<>>
  /\ safe_calls' = {}
  /\ assigned_calls' = {}
  /\ scope_stack' = <<Scope>>
  /\ agenda' = <<>>
  /\ blocks' = <<>>
  /\ line' = 1
  /\ issues' = <<>>
  /\ prog' = <<>>
  /\ UNCHANGED <<files, found, run, queue, stdout, stderr>>

\* the second run: analyze on a file that has not changed
Analyze_Unchanged ==
  /\ pc = "loop"
  /\ run = 2
  /\ queue # <<>>
  /\ main_issues' = main_issues \o returned[Head(queue)]
  /\ stderr' = IF files[Head(queue)] = "source" THEN stderr
               ELSE Append(stderr, Warning(Head(queue)))
  /\ queue' = Tail(queue)
  /\ UNCHANGED <<records, safe_calls, assigned_calls, scope_stack, agenda,
                 blocks, line, pc, issues, prog>>
  /\ UNCHANGED <<files, found, run, path, returned, stdout>>

\* if issues: print("\n".join(issues))
Main_Print ==
  /\ pc = "loop"
  /\ queue = <<>>
  /\ stdout' = Append(stdout, main_issues)
  /\ pc' = "exit"
  /\ UNCHANGED <<records, safe_calls, assigned_calls, scope_stack, agenda,
                 blocks, line, issues, prog>>
  /\ UNCHANGED <<files, found, run, queue, path, main_issues, returned, stderr>>

\* the program is run again over the same files
Main_Again ==
  /\ pc = "exit"
  /\ run = 1
  /\ run' = 2
  /\ pc' = "main"
  /\ UNCHANGED <<records, safe_calls, assigned_calls, scope_stack, agenda,
                 blocks, line, issues, prog>>
  /\ UNCHANGED <<files, found, queue, path, main_issues, returned, stdout, stderr>>

\* the files of the explored projects
AlphaBatch(L) ==
  {BindStmt(L, "x", "file_handle"), AcquireStmt(L, "socket_handle"),
   AwaitNameStmt(L, "x"), DefStmt(L, "FunctionDef"),
   WithStmt(L, "With", "file_handle")}

NextBatch ==
  \/ Main_Collect
  \/ Analyze_Skip
  \/ Analyze_Raise
  \/ Analyze_Visit
  \/ BeginStmt(AlphaBatch(line), MaxFileStmts)
  \/ Visit
  \/ Analyze_Return
  \/ Analyze_Unchanged
  \/ Main_Print
  \/ Main_Again

SpecBatch == InitBatch /\ [][NextBatch]_vars

(***************************************************************************)
(* One file analyzed together with another and alone.  The first run is    *)
(* over a project of two files, whose statements are whatever the          *)
(* traversal meets; files keeps, per path, the statements met and returned *)
(* what analyze returned.  The second run is a new process whose root is   *)
(* one of the two files, unchanged: the traversal meets the statements     *)
(* kept in files.                                                          *)
(***************************************************************************)
TogetherPaths == {PathOrder[1], PathOrder[3]}

\* for path in sorted(collect_files(root), key=...): the project in the first
\* run, and in the second a root that is a .py file (collect_files returns
\* [root])
Main_CollectRoot ==
  /\ pc = "main"
  /\ IF run = 1
     THEN \E e \in Enumerations(TogetherPaths) : queue' = SortedPaths(e)
     ELSE \E p \in TogetherPaths : queue' = <<p>>
  /\ main_issues' = <<>>
  /\ pc' = "loop"
  /\ UNCHANGED <<records, safe_calls, assigned_calls, scope_stack, agenda,
                 blocks, line, issues, prog>>
  /\ UNCHANGED <<files, found, run, path, returned, stdout, stderr>>

\* analyze visiting the tree with the analyzer of the file before
Analyze_Construct_sharing ==
  /\ pc = "loop"
  /\ queue # <<>>
  /\ path' = Head(queue)
  /\ queue' = Tail(queue)
  /\ pc' = "visit"
  /\ agenda' = <<>>
  /\ blocks' = <<>>
  /\ line' = 1
  /\ issues' = <<>>
  /\ prog' = <<>>
  /\ UNCHANGED <<records, safe_calls, assigned_calls, scope_stack>>
  /\ UNCHANGED <<files, found, run, main_issues, returned, stdout, stderr>>

\* analyze: tree = ast.parse(...); analyzer = Analyzer(tree), whose __init__
\* makes new records, safe_calls, assigned_calls and scope_stack = [Scope()]
Analyze_Construct ==
  /\ pc = "loop"
  /\ queue # <<>>
  /\ path' = Head(queue)
  /\ queue' = Tail(queue)
  /\ pc' = "visit"
  /\ records' = <<>>
  /\ safe_calls' = {}
  /\ assigned_calls' = {}
  /\ scope_stack' = <<Scope>>
  /\ agenda' = <<>>
  /\ blocks' = <<>>
  /\ line' = 1
  /\ issues' = <<>>
  /\ prog' = <<>>
  /\ UNCHANGED <<files, found, run, main_issues, returned, stdout, stderr>>

\* the files of the two-file projects
AlphaAlone(L) == AlphaBatch(L) \cup {ReleaseStmt(L, "x", "close")}

\* analyzer.visit(tree) in the second run: the statements are those of the
\* first run
VisitSameFile ==
  /\ \/ BeginStmt(AlphaAlone(line), MaxAloneStmts)
     \/ Visit
  /\ run = 2 => /\ Len(prog') <= Len(files[path])
                /\ prog' = SubSeq(files[path], 1, Len(prog'))
                /\ pc' = "done" => prog' = files[path]

\* return analyzer.report(display); issues.extend(...)
Analyze_ReturnIssues ==
  /\ pc = "done"
  /\ main_issues' = main_issues \o LinesOf(path, issues)
  /\ IF run = 1
     THEN /\ returned' = Put(returned, path, LinesOf(path, issues))
          /\ files' = Put(files, path, prog)
     ELSE UNCHANGED <<returned, files>>
  /\ pc' = "loop"
  /\ UNCHANGED <<records, safe_calls, assigned_calls, scope_stack, agenda,
                 blocks, line, issues, prog>>
  /\ UNCHANGED <<found, run, queue, path, stdout, stderr>>

\* the program is started again, on one file
Main_StartAlone ==
  /\ pc = "exit"
  /\ run = 1
  /\ run' = 2
  /\ pc' = "main"
  /\ records' = <<>>
  /\ safe_calls' = {}
  /\ assigned_calls' = {}
  /\ scope_stack' = <<Scope>>
  /\ agenda' = <<>>
  /\ blocks' = <<>>
  /\ line' = 1
  /\ issues' = <<>>
  /\ prog' = <<>>
  /\ path' = ""
  /\ UNCHANGED <<files, found, queue, main_issues, returned, stdout, stderr>>

InitAlone ==
  /\ records = <<>>
  /\ safe_calls = {}
  /\ assigned_calls = {}
  /\ scope_stack = <<Scope>>
  /\ agenda = <<>>
  /\ blocks = <<>>
  /\ line = 1
  /\ pc = "main"
  /\ issues = <<>>
  /\ prog = <<>>
  /\ files = EmptyMap
  /\ found = <<>>
  /\ run = 1
  /\ queue = <<>>
  /\ path = ""
  /\ main_issues = <<>>
  /\ returned = EmptyMap
  /\ stdout = <<>>
  /\ stderr = <<>>

NextAlone ==
  \/ Main_CollectRoot
  \/ Analyze_Construct
  \/ VisitSameFile
  \/ Analyze_ReturnIssues
  \/ Main_Print
  \/ Main_StartAlone

SpecAlone == InitAlone /\ [][NextAlone]_vars

(***************************************************************************)
(* collect_files.  A path is the sequence of its parts (Path.parts); path  *)
(* is the root as it was given, files the set of the files beneath it,     *)
(* each by its parts relative to the root ({<<>>}: the root is itself a    *)
(* file); queue is what root.rglob("*.py") has still to yield and found    *)
(* the list being built.                                                   *)
(***************************************************************************)
IGNORED_PARTS ==
  {".git", "__pycache__", ".mypy_cache", ".pytest_cache", ".ruff_cache",
   "node_modules", "dist", "build", ".venv", "venv", "env", "envs",
   "site-packages", "target"}

\* names with the suffix .py
PySuffix == {"m.py"}

\* the directories a root is made of, and the roots
RootNames == {"proj", "build"}

DirRoots == UNION {[1..n -> RootNames] : n \in 1..MaxRootParts}

FileRoots == {r \o <<f>> : r \in DirRoots, f \in {"m.py", "n.txt"}}

\* the files a project may hold, relative to its root
RelPaths ==
  {<<"m.py">>, <<"n.txt">>, <<"pkg", "m.py">>, <<"venv", "m.py">>,
   <<"pkg", "node_modules", "m.py">>, <<"build", "pkg", "m.py">>}

\* the paths root.rglob("*.py") yields
Globbed == {path \o rel : rel \in {f \in files : f # <<>> /\ f[Len(f)] \in PySuffix}}

InitCollect ==
  /\ records = <<>>
  /\ safe_calls = {}
  /\ assigned_calls = {}
  /\ scope_stack = <<Scope>>
  /\ agenda = <<>>
  /\ blocks = <<>>
  /\ line = 1
  /\ pc = "collect_files"
  /\ issues = <<>>
  /\ prog = <<>>
  /\ \/ path \in DirRoots /\ files \in SUBSET RelPaths
     \/ path \in FileRoots /\ files = {<<>>}
  /\ found = <<>>
  /\ run = 1
  /\ queue = <<>>
  /\ main_issues = <<>>
  /\ returned = EmptyMap
  /\ stdout = <<>>
  /\ stderr = <<>>

\* if root.is_file() and root.suffix == ".py": return [root]
Collect_File ==
  /\ pc = "collect_files"
  /\ files = {<<>>} /\ path[Len(path)] \in PySuffix
  /\ found' = <<path>>
  /\ pc' = "collected"
  /\ UNCHANGED <<records, safe_calls, assigned_calls, scope_stack, agenda,
                 blocks, line, issues, prog>>
  /\ UNCHANGED <<files, run, queue, path, main_issues, returned, stdout, stderr>>

\* for path in root.rglob("*.py"): the order is the file system's
Collect_Glob ==
  /\ pc = "collect_files"
  /\ ~(files = {<<>>} /\ path[Len(path)] \in PySuffix)
  /\ \E e \in Enumerations(Globbed) : queue' = e
  /\ pc' = "rglob"
  /\ UNCHANGED <<records, safe_calls, assigned_calls, scope_stack, agenda,
                 blocks, line, issues, prog>>
  /\ UNCHANGED <<files, found, run, path, main_issues, returned, stdout, stderr>>

\* if any(part in IGNORED_PARTS for part in path.parts): continue
\* files.append(path)
Collect_Each ==
  /\ pc = "rglob"
  /\ queue # <<>>
  /\ found' = IF \E i \in DOMAIN Head(queue) : Head(queue)[i] \in IGNORED_PARTS
              THEN found
              ELSE Append(found, Head(queue))
  /\ queue' = Tail(queue)
  /\ UNCHANGED <<records, safe_calls, assigned_calls, scope_stack, agenda,
                 blocks, line, pc, issues, prog>>
  /\ UNCHANGED <<files, run, path, main_issues, returned, stdout, stderr>>

\* return files
Collect_Return ==
  /\ pc = "rglob"
  /\ queue = <<>>
  /\ pc' = "collected"
  /\ UNCHANGED <<records, safe_calls, assigned_calls, scope_stack, agenda,
                 blocks, line, issues, prog>>
  /\ UNCHANGED driver

NextCollect == Collect_File \/ Collect_Glob \/ Collect_Each \/ Collect_Return

SpecCollect == InitCollect /\ [][NextCollect]_vars

(***************************************************************************)
(* Reading the input program (prog: the statements visited so far, each    *)
(* with the scopes that were on the stack when it was reached; statement i *)
(* is on line i).                                                          *)
(***************************************************************************)
RECURSIVE Nodes(_)
RECURSIVE NodesOfEach(_)
NodesOfEach(ns) == IF ns = <<>> THEN <<>> ELSE Nodes(Head(ns)) \o NodesOfEach(Tail(ns))

\* every node of the subtree of n, in the order of the traversal
Nodes(n) == <<n>> \o NodesOfEach(ChildNodes(n))

\* the nodes of the subtree of n that satisfy P
NodesWhere(n, P(_)) == SelectSeq(Nodes(n), P)

Range(seq) == {seq[i] : i \in DOMAIN seq}

Uids(calls) == {calls[i].uid : i \in DOMAIN calls}

\* the kind whose acquisition a callee expression spells, or "none"
CalleeKind(func) ==
  IF \E k \in Kinds : func = Callee(k)
  THEN CHOOSE k \in Kinds : func = Callee(k)
  ELSE "none"

IsAcquire(n) == n.t = "Call" /\ CalleeKind(n.func) # "none"

\* acquire_k() as a statement, or x = acquire_k() with one plain name
IsUnboundAcquire(stmt) == stmt.t = "Expr" /\ IsAcquire(stmt.value)

IsBoundAcquire(stmt) ==
  /\ stmt.t = "Assign"
  /\ Len(stmt.targets) = 1
  /\ stmt.targets[1].t = "Name"
  /\ IsAcquire(stmt.value)

AcquiredKind(stmt) == CalleeKind(stmt.value.func)

BoundName(stmt) == stmt.targets[1].id

\* receiver.method pairs of the by-name method calls in a statement
MethodCalls(stmt) ==
  LET calls == NodesWhere(stmt, LAMBDA c : /\ c.t = "Call"
                                          /\ c.func.t = "Attribute"
                                          /\ c.func.value.t = "Name")
  IN {<<calls[i].func.value.id, calls[i].func.attr>> : i \in DOMAIN calls}

AwaitedNames(stmt) ==
  LET awaits == NodesWhere(stmt, LAMBDA c : c.t = "Await" /\ c.value.t = "Name")
  IN {awaits[i].value.id : i \in DOMAIN awaits}

RECURSIVE PassedNames(_)
\* the names an argument passes: bare, starred or inside tuple/list/set
PassedNames(arg) ==
  CASE arg.t = "Name" -> {arg.id}
    [] arg.t = "Starred" -> PassedNames(arg.value)
    [] arg.t \in {"Tuple", "List", "Set"} ->
         UNION {PassedNames(arg.elts[i]) : i \in DOMAIN arg.elts}
    [] OTHER -> {}

IsCombinatorCall(n) ==
  /\ n.t = "Call"
  /\ \E c \in {"gather", "wait", "wait_for"} : n.func = Attribute(Name("asyncio"), c)

Arguments(call) == call.args \o KeywordValues(call.keywords)

CombinatorCalls(stmt) == NodesWhere(stmt, IsCombinatorCall)

CombinatorNames(stmt) ==
  LET calls == CombinatorCalls(stmt)
  IN UNION {UNION {PassedNames(Arguments(calls[c])[i]) : i \in DOMAIN Arguments(calls[c])} :
              c \in DOMAIN calls}

\* the statement holds a release event for name x and kind k
Releases(stmt, x, k) ==
  \/ \E m \in ReleaseMethodsOf(k) : <<x, m>> \in MethodCalls(stmt)
  \/ k = "asyncio_task" /\ x \in AwaitedNames(stmt) \cup CombinatorNames(stmt)

InnerScope(e) == e.chain[Len(e.chain)]

OnChain(scope, e) == \E d \in DOMAIN e.chain : e.chain[d] = scope

\* some statement reached while the scope of statement i is on the stack
\* releases the name statement i binds, for the kind it acquires
ReleasedInChain(i) ==
  \E j \in DOMAIN prog :
    /\ OnChain(InnerScope(prog[i]), prog[j])
    /\ Releases(prog[j].node, BoundName(prog[i].node), AcquiredKind(prog[i].node))

IssuesAt(l) == SelectSeq(issues, LAMBDA d : d.lineno = l)

(***************************************************************************)
(* C1  Coverage: at the end of the traversal, every acquisition that is a  *)
(* statement of its own or is bound to one name, and for whose name no     *)
(* release event of its kind occurs in its scope chain, has exactly one    *)
(* diagnostic on its line, and that diagnostic carries its kind.           *)
(***************************************************************************)
C1_Coverage ==
  pc = "done" =>
    \A i \in DOMAIN prog :
      (\/ IsUnboundAcquire(prog[i].node)
       \/ IsBoundAcquire(prog[i].node) /\ ~ReleasedInChain(i))
      => /\ Len(IssuesAt(i)) = 1
         /\ IssuesAt(i)[1].kind = AcquiredKind(prog[i].node)

\* a bound leak survives a release event of another kind for its name, and
\* an unbound one is reported beside it
C1_Witness ==
  /\ pc = "done"
  /\ \E i, j, u \in DOMAIN prog :
       /\ IsBoundAcquire(prog[i].node) /\ ~ReleasedInChain(i)
       /\ i < j
       /\ \E k \in Kinds : Releases(prog[j].node, BoundName(prog[i].node), k)
       /\ IsUnboundAcquire(prog[u].node)
       /\ Len(IssuesAt(i)) = 1 /\ Len(IssuesAt(u)) = 1

\* statement l binds x to an acquisition or holds a release event for x
Mentions(l, x) ==
  \/ IsBoundAcquire(prog[l].node) /\ BoundName(prog[l].node) = x
  \/ \E k \in Kinds : Releases(prog[l].node, x, k)

\* statement i binds a name to an acquisition of kind k and statement j, the
\* next one that mentions the name, is a call name.m() with m a release
\* method of k
BindThenRelease(i, j) ==
  /\ i < j
  /\ IsBoundAcquire(prog[i].node)
  /\ prog[j].node.t = "Expr"
  /\ \E m \in ReleaseMethodsOf(AcquiredKind(prog[i].node)) :
       prog[j].node.value = ReleaseStmt(j, BoundName(prog[i].node)[1], m[1]).value
  /\ \A l \in DOMAIN prog : i < l /\ l < j => ~Mentions(l, BoundName(prog[i].node))

(***************************************************************************)
(* C2  Explicit release by name: an acquisition of kind k bound to x and   *)
(* followed in the same scope by x.m(), m any release method of k, is      *)
(* released and has no diagnostic at the end of the traversal.             *)
(***************************************************************************)
C2_ReleaseByName ==
  pc = "done" =>
    \A i, j \in DOMAIN prog :
      BindThenRelease(i, j) /\ prog[i].chain = prog[j].chain
      => records[CHOOSE r \in DOMAIN records : records[r].lineno = i].released
         /\ IssuesAt(i) = <<>>

\* every acquisition of the program is a with item, the receiver of a
\* chained release of its kind, or bound and then released in the same scope
CleanStmt(i) ==
  LET stmt == prog[i].node
      acquisitions == NodesWhere(stmt, IsAcquire)
  IN \/ acquisitions = <<>>
     \/ /\ stmt.t \in WithTypes
        /\ acquisitions = ContextExprs(stmt.items)
     \/ \E k \in Kinds : \E m \in ReleaseMethodsOf(k) : stmt = ChainedStmt(i, k, m[1])
     \/ /\ IsBoundAcquire(stmt)
        /\ \E j \in DOMAIN prog : BindThenRelease(i, j) /\ prog[i].chain = prog[j].chain

(***************************************************************************)
(* C3  Clean-project property: when every acquisition of the file is a     *)
(* with item, the receiver of a chained release, or bound to a name and    *)
(* released by a release method of its kind, the diagnostic list is empty. *)
(***************************************************************************)
C3_CleanProject ==
  pc = "done" /\ (\A i \in DOMAIN prog : CleanStmt(i)) => issues = <<>>

(***************************************************************************)
(* C4  Reassignment LIFO: a name bound twice in one scope to acquisitions  *)
(* of one kind and then released once (the only statements that mention    *)
(* the name) leaves exactly one diagnostic, on the line of the first       *)
(* acquisition.                                                            *)
(***************************************************************************)
C4_ReassignmentLIFO ==
  pc = "done" =>
    \A i, j, l \in DOMAIN prog :
      /\ i < j
      /\ IsBoundAcquire(prog[i].node) /\ IsBoundAcquire(prog[j].node)
      /\ AcquiredKind(prog[i].node) = AcquiredKind(prog[j].node)
      /\ BoundName(prog[i].node) = BoundName(prog[j].node)
      /\ BindThenRelease(j, l)
      /\ prog[i].chain = prog[j].chain /\ prog[j].chain = prog[l].chain
      /\ \A o \in DOMAIN prog \ {i, j, l} : ~Mentions(o, BoundName(prog[i].node))
      => /\ Len(IssuesAt(i)) = 1
         /\ IssuesAt(j) = <<>>
         /\ Len(issues) = 1

\* chain a is chain b extended by at least one nested def
NestedIn(a, b) == Len(a) > Len(b) /\ SubSeq(a, 1, Len(b)) = b

(***************************************************************************)
(* C5  Cross-scope release: an acquisition bound to a name in a function,  *)
(* released by name (by a release method of its kind) inside a function    *)
(* nested at any depth in that function, has no diagnostic.                *)
(***************************************************************************)
C5_CrossScopeRelease ==
  pc = "done" =>
    \A i, j \in DOMAIN prog :
      /\ BindThenRelease(i, j)
      /\ InnerScope(prog[i]) # 0
      /\ NestedIn(prog[j].chain, prog[i].chain)
      /\ \A o \in DOMAIN prog \ {i, j} : ~Mentions(o, BoundName(prog[i].node))
      => IssuesAt(i) = <<>>

\* the acquisition calls (their uids) that are context expressions of a
\* with statement
WithAcquires(stmt) ==
  IF stmt.t \in WithTypes
  THEN Uids(SelectSeq(ContextExprs(stmt.items), IsAcquire))
  ELSE {}

CallsOf(stmt) == Uids(NodesWhere(stmt, LAMBDA n : n.t = "Call"))

\* the call node about to be visited is one of the calls named by uids
AboutToVisit(uids) ==
  pc = "visit" /\ agenda # <<>> /\ Head(agenda).t = "Call" /\ Head(agenda).uid \in uids

RecordsAt(l) == {r \in DOMAIN records : records[r].lineno = l}

\* the statement being visited
CurrentStmt == prog[Len(prog)].node

(***************************************************************************)
(* C6  Structured-release suppression: an acquisition that is the context  *)
(* expression of a with / async with item is in safe_calls whenever its    *)
(* call node is about to be visited; at the end of the traversal it has no *)
(* record (the record list, which only grows, holds none with the line of  *)
(* a with statement whose calls are all such acquisitions) and no          *)
(* diagnostic.                                                             *)
(***************************************************************************)
C6_StructuredRelease ==
  /\ pc = "done" =>
       \A i \in DOMAIN prog :
         WithAcquires(prog[i].node) # {}
         /\ CallsOf(prog[i].node) = WithAcquires(prog[i].node)
         => RecordsAt(i) = {} /\ IssuesAt(i) = <<>>
  /\ prog # <<>> /\ AboutToVisit(WithAcquires(CurrentStmt))
     => Head(agenda).uid \in safe_calls

\* a with statement of two acquisitions was visited, nothing was recorded for
\* it, and an acquisition outside any with item is reported
C6_Witness ==
  /\ pc = "done"
  /\ issues # <<>>
  /\ \E i \in DOMAIN prog :
       /\ Cardinality(WithAcquires(prog[i].node)) = 2
       /\ RecordsAt(i) = {}
       /\ WithAcquires(prog[i].node) \subseteq safe_calls

\* statement i is acquire_k().m() with m a release method of k
IsChainedRelease(i) ==
  \E k \in Kinds : \E m \in ReleaseMethodsOf(k) : prog[i].node = ChainedStmt(i, k, m[1])

(***************************************************************************)
(* C7  Chained release: for every kind k and release method m of k, the    *)
(* statement acquire_k().m() has, at the end of the traversal, no record   *)
(* and no diagnostic, and no step of its visit changes a scope's name      *)
(* table or a record.                                                      *)
(***************************************************************************)
C7_ChainedRelease ==
  /\ [](pc = "done" =>
          \A i \in DOMAIN prog :
            IsChainedRelease(i) => RecordsAt(i) = {} /\ IssuesAt(i) = <<>>)
  /\ [][pc = "visit" /\ agenda # <<>> /\ IsChainedRelease(Len(prog))
        => scope_stack' = scope_stack /\ records' = records]_vars

\* a chained close of a socket left no record while a name is bound in the
\* name table, and a file chained with wait() is reported
C7_Witness ==
  /\ pc = "done"
  /\ \E i, j, l \in DOMAIN prog :
       /\ prog[i].node = ChainedStmt(i, "socket_handle", "close")
       /\ <<i, 2>> \in safe_calls
       /\ prog[j].node = ChainedStmt(j, "file_handle", "wait")
       /\ Len(IssuesAt(j)) = 1
       /\ IsBoundAcquire(prog[l].node) /\ l < i

RECURSIVE FreshTasks(_)
\* the task-creation calls (their uids) an argument passes: bare, starred or
\* inside tuple/list/set literals, to any depth
FreshTasks(arg) ==
  CASE IsAcquire(arg) /\ CalleeKind(arg.func) = "asyncio_task" -> {arg.uid}
    [] arg.t = "Starred" -> FreshTasks(arg.value)
    [] arg.t \in {"Tuple", "List", "Set"} ->
         UNION {FreshTasks(arg.elts[i]) : i \in DOMAIN arg.elts}
    [] OTHER -> {}

\* the fresh tasks a statement hands to task-consuming combinators
ConsumedFresh(stmt) ==
  LET calls == CombinatorCalls(stmt)
  IN UNION {UNION {FreshTasks(Arguments(calls[c])[i]) : i \in DOMAIN Arguments(calls[c])} :
              c \in DOMAIN calls}

AcquiresOf(stmt) == Uids(NodesWhere(stmt, IsAcquire))

(***************************************************************************)
(* C8  Task combinator consumption of fresh tasks: a task-creation call    *)
(* passed to asyncio.gather / wait / wait_for (positional or keyword,      *)
(* bare, starred, nested in tuple/list/set literals, the combinator        *)
(* awaited or not) is in safe_calls when its node is about to be visited   *)
(* and has no record at the end of the traversal: the records of the       *)
(* statement's line are those of its other acquisitions, none when there   *)
(* is no other, and then the line has no diagnostic.                       *)
(***************************************************************************)
C8_CombinatorFreshTasks ==
  /\ pc = "done" =>
       \A i \in DOMAIN prog :
         LET consumed == ConsumedFresh(prog[i].node)
             others == AcquiresOf(prog[i].node) \ consumed
         IN consumed # {}
            => /\ Cardinality(RecordsAt(i)) = Cardinality(others)
               /\ \A r \in RecordsAt(i) : records[r].kind # "asyncio_task"
               /\ others = {} => IssuesAt(i) = <<>>
  /\ prog # <<>> /\ AboutToVisit(ConsumedFresh(CurrentStmt))
     => Head(agenda).uid \in safe_calls

\* starred, set, keyword-nested and awaited-combinator forms were all
\* visited without a record, and a file passed beside a task is reported
C8_Witness ==
  /\ pc = "done"
  /\ \E i, j, l \in DOMAIN prog :
       /\ prog[i].node = CombinatorStmt(i, "gather",
                            <<Starred(ListNode(<<Task(i, 1), Task(i, 2)>>))>>, <<>>)
       /\ RecordsAt(i) = {}
       /\ prog[j].node = CombinatorStmt(j, "wait", <<>>,
                            <<Keyword("fs", TupleNode(<<ListNode(<<Task(j, 1)>>)>>))>>)
       /\ RecordsAt(j) = {}
       /\ prog[l].node = CombinatorStmt(l, "gather",
                            <<Task(l, 1), Acquire("file_handle", l, 2)>>, <<>>)
       /\ Len(IssuesAt(l)) = 1 /\ IssuesAt(l)[1].kind = "file_handle"

\* the unreleased task records filed under name x in the scope at depth d
TaskCandidates(x, d) ==
  LET by == scope_stack[d].by_name
  IN IF x \notin DOMAIN by THEN {}
     ELSE {by[x][e] : e \in {e \in DOMAIN by[x] :
              /\ ~records[by[x][e]].released
              /\ records[by[x][e]].kind = "asyncio_task"}}

Max(ns) == CHOOSE n \in ns : \A m \in ns : m <= n

\* the most recent unreleased task record under x in the innermost scope of
\* the stack that has one, or 0
AwaitTarget(x) ==
  LET depths == {d \in DOMAIN scope_stack : TaskCandidates(x, d) # {}}
  IN IF depths = {} THEN 0 ELSE Max(TaskCandidates(x, Max(depths)))

\* statement i binds x to a task and statement j, reached while the scope of
\* i is still on the stack, awaits x, no task being bound to x in between
BindThenAwait(i, j) ==
  /\ i < j
  /\ prog[i].node = BindStmt(i, "x", "asyncio_task")
  /\ prog[j].node = AwaitNameStmt(j, "x")
  /\ (prog[j].chain = prog[i].chain \/ NestedIn(prog[j].chain, prog[i].chain))
  /\ \A l \in DOMAIN prog :
       i < l /\ l < j => prog[l].node # BindStmt(l, "x", "asyncio_task")

(***************************************************************************)
(* C9  Await by name: visiting an await whose operand is a bare name marks *)
(* released the most recent unreleased asyncio_task record under that      *)
(* name, found searching outward through all scopes on the stack, and      *)
(* changes no other record; a task bound to a name and later awaited by    *)
(* that name has no diagnostic at the end of the traversal.                *)
(***************************************************************************)
C9_AwaitByName ==
  /\ [][pc = "visit" /\ agenda # <<>> /\ Head(agenda).t = "Await"
        /\ Head(agenda).value.t = "Name"
        => LET hit == AwaitTarget(Head(agenda).value.id)
           IN records' = IF hit = 0 THEN records
                         ELSE [records EXCEPT ![hit].released = TRUE]]_vars
  /\ [](pc = "done" =>
          \A i, j \in DOMAIN prog : BindThenAwait(i, j) => IssuesAt(i) = <<>>)

\* a task bound at module level was awaited by name inside a function and
\* has no diagnostic
C9_Witness ==
  /\ pc = "done"
  /\ \E i, j \in DOMAIN prog :
       /\ BindThenAwait(i, j)
       /\ NestedIn(prog[j].chain, prog[i].chain)
       /\ records[CHOOSE r \in DOMAIN records : records[r].lineno = i].released
       /\ IssuesAt(i) = <<>>

(***************************************************************************)
(* C10  Await of a fresh task: the task-creation call directly under an    *)
(* await is in safe_calls when its node is about to be visited, and at the *)
(* end of the traversal its line has no record and no diagnostic; an       *)
(* acquisition call of any other kind directly under an await is not in    *)
(* safe_calls when visited and its line has one diagnostic, of its kind.   *)
(***************************************************************************)
C10_AwaitFresh ==
  /\ \A k \in Kinds :
       prog # <<>> /\ CurrentStmt = AwaitFreshStmt(Len(prog), k)
       /\ AboutToVisit({<<Len(prog), 1>>})
       => (Head(agenda).uid \in safe_calls <=> k = "asyncio_task")
  /\ pc = "done" =>
       \A i \in DOMAIN prog :
         /\ prog[i].node = AwaitFreshStmt(i, "asyncio_task")
            => RecordsAt(i) = {} /\ IssuesAt(i) = <<>>
         /\ \A k \in Kinds \ {"asyncio_task"} :
              prog[i].node = AwaitFreshStmt(i, k)
              => /\ Len(IssuesAt(i)) = 1
                 /\ IssuesAt(i)[1].kind = k

\* an awaited fresh task left nothing behind and an awaited fresh file was
\* reported beside it
C10_Witness ==
  /\ pc = "done"
  /\ \E i, j \in DOMAIN prog :
       /\ prog[i].node = AwaitFreshStmt(i, "asyncio_task")
       /\ RecordsAt(i) = {} /\ IssuesAt(i) = <<>>
       /\ prog[j].node = AwaitFreshStmt(j, "file_handle")
       /\ Len(IssuesAt(j)) = 1

RECURSIVE PassedNameSeq(_)
RECURSIVE PassedNameSeqOfEach(_)
PassedNameSeqOfEach(args) ==
  IF args = <<>> THEN <<>>
  ELSE PassedNameSeq(Head(args)) \o PassedNameSeqOfEach(Tail(args))

\* the bare names an argument passes, one entry per occurrence, left to right
PassedNameSeq(arg) ==
  CASE arg.t = "Name" -> <<arg.id>>
    [] arg.t = "Starred" -> PassedNameSeq(arg.value)
    [] arg.t \in {"Tuple", "List", "Set"} -> PassedNameSeqOfEach(arg.elts)
    [] OTHER -> <<>>

\* the most recent task record under x that is unreleased in recs, taken from
\* the innermost scope of the stack that has one, or 0
TaskTargetIn(recs, x) ==
  LET cands(d) ==
        LET by == scope_stack[d].by_name
        IN IF x \notin DOMAIN by THEN {}
           ELSE {r \in Range(by[x]) :
                   ~recs[r].released /\ recs[r].kind = "asyncio_task"}
      depths == {d \in DOMAIN scope_stack : cands(d) # {}}
  IN IF depths = {} THEN 0 ELSE Max(cands(Max(depths)))

RECURSIVE AfterAttempts(_, _)
\* the records after one release attempt per name, in order
AfterAttempts(recs, names) ==
  IF names = <<>> THEN recs
  ELSE LET hit == TaskTargetIn(recs, Head(names))
       IN AfterAttempts(IF hit = 0 THEN recs
                        ELSE [recs EXCEPT ![hit].released = TRUE],
                        Tail(names))

\* statement i binds a name to a task and statement j, reached while the
\* scope of i is still on the stack, passes that name to a combinator, no
\* task being bound to the name in between
BindThenPass(i, j) ==
  /\ i < j
  /\ IsBoundAcquire(prog[i].node)
  /\ AcquiredKind(prog[i].node) = "asyncio_task"
  /\ BoundName(prog[i].node) \in CombinatorNames(prog[j].node)
  /\ (prog[j].chain = prog[i].chain \/ NestedIn(prog[j].chain, prog[i].chain))
  /\ \A l \in DOMAIN prog :
       i < l /\ l < j
       => ~(/\ IsBoundAcquire(prog[l].node)
            /\ AcquiredKind(prog[l].node) = "asyncio_task"
            /\ BoundName(prog[l].node) = BoundName(prog[i].node))

(***************************************************************************)
(* C11  Named tasks passed to a combinator: visiting a call of             *)
(* asyncio.gather / wait / wait_for makes one asyncio_task release attempt *)
(* per bare-name argument occurrence (direct, starred, nested in           *)
(* tuple/list/set, positional or keyword), in order, and changes no other  *)
(* record; a task bound to a name and then passed by that name has no      *)
(* diagnostic at the end of the traversal.                                 *)
(***************************************************************************)
C11_CombinatorNamedTasks ==
  /\ [][pc = "visit" /\ agenda # <<>> /\ IsCombinatorCall(Head(agenda))
        => records' = AfterAttempts(records,
                        PassedNameSeqOfEach(Arguments(Head(agenda))))]_vars
  /\ [](pc = "done" =>
          \A i, j \in DOMAIN prog : BindThenPass(i, j) => IssuesAt(i) = <<>>)

\* two tasks bound to x and y were passed starred and nested in one call,
\* both are released and nothing is reported
C11_Witness ==
  /\ pc = "done"
  /\ Len(prog) = 3
  /\ prog[3].node = CombinatorStmt(3, "gather",
                      <<Starred(TupleNode(<<Name("x"), ListNode(<<Name("y")>>)>>))>>, <<>>)
  /\ BindThenPass(1, 3) /\ BindThenPass(2, 3)
  /\ Len(records) = 2 /\ records[1].released /\ records[2].released
  /\ issues = <<>>

EscapeTypes == {"Return", "Yield", "YieldFrom"}

\* what a statement returns or yields, NoNode when it does neither
EscapedValue(stmt) ==
  CASE stmt.t = "Return" -> stmt.value
    [] stmt.t \in {"Expr", "Assign"} /\ stmt.value.t \in {"Yield", "YieldFrom"} ->
         stmt.value.value
    [] OTHER -> NoNode

(***************************************************************************)
(* C12  Escape is not release: visiting a return, yield or yield from      *)
(* changes no record and marks no call safe; at the end of the traversal a *)
(* returned or yielded fresh acquisition has exactly one diagnostic, of    *)
(* its kind, on its line, and so has an acquisition bound to a name that   *)
(* is returned or yielded while no release event for the name occurs in    *)
(* its scope chain.                                                        *)
(***************************************************************************)
C12_EscapeIsNotRelease ==
  /\ [][pc = "visit" /\ agenda # <<>> /\ Head(agenda).t \in EscapeTypes
        => records' = records /\ safe_calls' = safe_calls]_vars
  /\ [](pc = "done" =>
          \A i \in DOMAIN prog :
            /\ IsAcquire(EscapedValue(prog[i].node))
               => /\ Len(IssuesAt(i)) = 1
                  /\ IssuesAt(i)[1].kind = CalleeKind(EscapedValue(prog[i].node).func)
            /\ \A j \in DOMAIN prog :
                 /\ i < j
                 /\ IsBoundAcquire(prog[i].node)
                 /\ EscapedValue(prog[j].node) = Name("x")
                 /\ BoundName(prog[i].node) = S("x")
                 /\ ~ReleasedInChain(i)
                 => /\ Len(IssuesAt(i)) = 1
                    /\ IssuesAt(i)[1].kind = AcquiredKind(prog[i].node))

\* a socket bound to x and returned by name, and a file returned as a fresh
\* call, are both reported
C12_Witness ==
  /\ pc = "done"
  /\ Len(prog) = 3
  /\ prog[1].node = BindStmt(1, "x", "socket_handle")
  /\ prog[2].node = Return(Name("x"))
  /\ prog[3].node = Expr(YieldFrom(Acquire("file_handle", 3, 1)))
  /\ Len(issues) = 2
  /\ ~records[1].released /\ ~records[2].released

(***************************************************************************)
(* C13  Record lifecycle is monotone: no step removes a record or changes  *)
(* the name, kind or line of one, and a released flag only ever goes from  *)
(* false to true (hence changes at most once).                             *)
(***************************************************************************)
C13_RecordLifecycle ==
  [][/\ Len(records') >= Len(records)
     /\ \A r \in DOMAIN records :
          /\ records[r].released => records'[r].released
          /\ records'[r].name = records[r].name
          /\ records'[r].kind = records[r].kind
          /\ records'[r].lineno = records[r].lineno]_vars

\* a record was released and the list then grew by a record that is still
\* unreleased
C13_Witness ==
  /\ pc = "done"
  /\ Len(prog) = 3
  /\ prog[1].node = BindStmt(1, "x", "file_handle")
  /\ prog[2].node = ReleaseStmt(2, "x", "close")
  /\ \E k \in Kinds : prog[3].node = BindStmt(3, "x", k)
  /\ Len(records) = 2
  /\ records[1].released /\ ~records[2].released

Unreleased == {r \in DOMAIN records : ~records[r].released}

(***************************************************************************)
(* C14  Report completeness and exactness: at the end of the traversal the *)
(* number of diagnostics equals the number of unreleased records, and for  *)
(* every line and kind there are as many diagnostics as unreleased records *)
(* of that line and kind (so each unreleased record has its one line and a *)
(* released record has none).                                              *)
(***************************************************************************)
C14_ReportExact ==
  pc = "done" =>
    /\ Len(issues) = Cardinality(Unreleased)
    /\ \A l \in 1..line : \A k \in Kinds :
         Cardinality({d \in DOMAIN issues :
                        issues[d].lineno = l /\ issues[d].kind = k})
         = Cardinality({r \in Unreleased :
                          records[r].lineno = l /\ records[r].kind = k})

\* of the two records of y = x = open(), the one under x is released and only
\* the other is reported, beside the two records of one later line
C14_Witness ==
  /\ pc = "done"
  /\ Len(prog) = 3
  /\ prog[1].node = Assign(<<Name("y"), Name("x")>>, Acquire("file_handle", 1, 1))
  /\ prog[2].node = ReleaseStmt(2, "x", "close")
  /\ prog[3].node = Expr(TwoAcquires(3, "print"))
  /\ Len(records) = 4 /\ Cardinality(Unreleased) = 3
  /\ Len(issues) = 3

\* the name a diagnostic was sorted by: "" when its subject is the kind tag
SortName(d) == IF d.message.name = S(d.kind) THEN <<"">> ELSE d.message.name

\* diagnostic d1 belongs strictly before d2
Before(d1, d2) ==
  \/ d1.lineno < d2.lineno
  \/ /\ d1.lineno = d2.lineno
     /\ \/ Rank(KindOrder, d1.kind) < Rank(KindOrder, d2.kind)
        \/ d1.kind = d2.kind /\ StrLess(SortName(d1), SortName(d2))

\* what the report says about a record
Subject(rec) == IF rec.name = None THEN S(rec.kind) ELSE rec.name

(***************************************************************************)
(* C15  Report ordering: at the end of the traversal no diagnostic stands  *)
(* after one it belongs strictly before by (line, kind tag, bound name or  *)
(* ""); each diagnostic's message is its kind's template with the bound    *)
(* name, or the kind tag for an unnamed record, substituted: for every     *)
(* unreleased record a diagnostic with its line, kind, template and        *)
(* subject exists, and every diagnostic is that of such a record.          *)
(***************************************************************************)
C15_ReportOrder ==
  pc = "done" =>
    /\ \A a, b \in DOMAIN issues : a < b => ~Before(issues[b], issues[a])
    /\ \A r \in Unreleased :
         \E d \in DOMAIN issues :
           /\ issues[d].lineno = records[r].lineno
           /\ issues[d].kind = records[r].kind
           /\ issues[d].message.name = Subject(records[r])
    /\ \A d \in DOMAIN issues :
         /\ issues[d].message.template = MESSAGE_TEMPLATES[issues[d].kind]
         /\ \E r \in Unreleased :
              /\ issues[d].lineno = records[r].lineno
              /\ issues[d].kind = records[r].kind
              /\ issues[d].message.name = Subject(records[r])

\* the records of a decorator's line were created after those of the body and
\* are reported first, the file before the socket, x before y
C15_Witness ==
  /\ pc = "done"
  /\ Len(prog) = 2
  /\ prog[1].node = DecoratedDef("FunctionDef", 1, <<TwoAcquires(1, "deco")>>)
  /\ prog[2].node = Assign(<<Name("y"), Name("x")>>, Acquire("file_handle", 2, 1))
  /\ prog[2].chain = <<0, 1>>
  /\ [i \in 1..4 |-> records[i].lineno] = <<2, 2, 1, 1>>
  /\ [i \in 1..4 |-> issues[i].lineno] = <<1, 1, 2, 2>>
  /\ [i \in 1..4 |-> issues[i].kind]
       = <<"file_handle", "socket_handle", "file_handle", "file_handle">>
  /\ [i \in 1..4 |-> issues[i].message.name]
       = <<S("file_handle"), S("socket_handle"), S("x"), S("y")>>

(***************************************************************************)
(* C16  Idempotence / determinism: two runs over the same files print the  *)
(* same lines in the same order whatever the two orders of discovery are;  *)
(* every output lists the files in ascending order of path string and,     *)
(* for each file, exactly the lines its report returned, in report order.  *)
(***************************************************************************)
C16_Deterministic ==
  /\ Len(stdout) = 2 => stdout[1] = stdout[2]
  /\ \A r \in DOMAIN stdout :
       /\ \A a, b \in DOMAIN stdout[r] :
            a < b => Rank(PathOrder, stdout[r][a].file)
                     <= Rank(PathOrder, stdout[r][b].file)
       /\ \A p \in Paths :
            SelectSeq(stdout[r], LAMBDA d : d.file = p) = returned[p]

\* two runs that discovered two leaking files in opposite orders have printed
C16_Witness ==
  /\ Len(stdout) = 2
  /\ found[1] # found[2]
  /\ Len(stdout[2]) = 2
  /\ stdout[2][1].file # stdout[2][2].file
  /\ stdout[2][1].kind # stdout[2][2].kind

Skipped == {p \in Paths : files[p] \in {"unreadable", "unparseable"}}

\* the lines of file p in an output
LinesFor(out, p) == SelectSeq(out, LAMBDA d : d.file = p)

\* every file that holds source was analyzed and its lines were printed
SourcesReported ==
  \A q \in Paths :
    files[q] = "source"
    => /\ q \in DOMAIN returned
       /\ LinesFor(stdout[1], q) = returned[q]

(***************************************************************************)
(* C17  Recoverable skip: when the file main has reached cannot be read    *)
(* (OSError) or parsed (SyntaxError), the step adds one warning naming the *)
(* file to stderr, adds nothing to the findings or to stdout, and leaves   *)
(* main in its loop with the rest of the queue; when the run ends, no      *)
(* printed line belongs to such a file and every file holding source has   *)
(* been analyzed and its lines printed.                                    *)
(***************************************************************************)
C17_RecoverableSkip ==
  /\ [][pc = "loop" /\ run = 1 /\ queue # <<>> /\ Head(queue) \in Skipped
        => /\ pc' = "loop"
           /\ queue' = Tail(queue)
           /\ main_issues' = main_issues
           /\ stdout' = stdout
           /\ Len(stderr') = Len(stderr) + 1
           /\ stderr'[Len(stderr')].file = Head(queue)]_vars
  /\ [](pc = "exit" /\ run = 1 =>
          /\ \A p \in Skipped :
               /\ LinesFor(stdout[1], p) = <<>>
               /\ \E w \in DOMAIN stderr : stderr[w].file = p
          /\ SourcesReported)

\* the first file of the batch was skipped with a warning and the leak of the
\* file after it is printed
C17_Witness ==
  /\ pc = "exit" /\ run = 1
  /\ files["a.py"] \in {"unreadable", "unparseable"}
  /\ files["a/b.py"] = "source"
  /\ Len(stderr) = 1 /\ stderr[1].file = "a.py"
  /\ Len(stdout[1]) = 1 /\ stdout[1][1].file = "a/b.py"

(***************************************************************************)
(* C18  No per-file failure is fatal to the batch: the run never ends in   *)
(* an uncaught error, whatever reading or parsing a file does (an          *)
(* undecodable file included), and it ends with every file that holds      *)
(* source analyzed and its lines printed.                                  *)
(***************************************************************************)
C18_NoFatalFailure ==
  /\ pc # "crashed"
  /\ pc = "exit" /\ run = 1 => SourcesReported

\* what the import statement stmt makes the name n stand for: <<module, None>>
\* for "import module as n", <<module, symbol>> for "from module import
\* symbol as n", None when stmt is no import of n
ImportedAs(stmt, n) ==
  IF stmt.t \in {"Import", "ImportFrom"} /\ stmt.names[1].asname = n
  THEN IF stmt.t = "Import" THEN <<stmt.names[1].name, None>>
       ELSE <<stmt.module, stmt.names[1].name>>
  ELSE None

\* the import of the name n in force at statement i: the latest one made in
\* a scope that is on the stack at i
ImportInForce(i, n) ==
  LET js == {j \in 1..(i - 1) :
               /\ ImportedAs(prog[j].node, n) # None
               /\ OnChain(InnerScope(prog[j]), prog[i])}
  IN IF js = {} THEN None ELSE ImportedAs(prog[Max(js)].node, n)

\* the expression that spells the dotted module m without an alias
ModuleExpr(m) ==
  IF Len(m) = 1 THEN Name(m[1]) ELSE Attribute(Name(m[1]), m[2])

\* the unaliased call module.symbol()
Unaliased(sig) == Call(<<0, 0>>, 0, Attribute(ModuleExpr(sig[1]), sig[2][1]), <<>>, <<>>)

\* the registry signature the call spells through the alias a or t at
\* statement i, None when it spells none
AliasedSig(i, call) ==
  LET viaModule == ImportInForce(i, S("a"))
      viaSymbol == ImportInForce(i, S("t"))
      sig == IF call.func.t = "Attribute" /\ call.func.value = Name("a")
                /\ viaModule # None /\ viaModule[2] = None
             THEN <<viaModule[1], call.func.attr>>
             ELSE IF call.func = Name("t") /\ viaSymbol # None
             THEN viaSymbol
             ELSE None
  IN IF sig \in AliasableSigs THEN sig ELSE None

\* the call of an expression statement, NoNode for another statement
StmtCall(stmt) ==
  IF stmt.t = "Expr" /\ stmt.value.t = "Call" THEN stmt.value ELSE NoNode

(***************************************************************************)
(* C19  Aliasing does not defeat detection: a call spelled through an      *)
(* alias of a registry module (import m as a; a.s()) or of a registry      *)
(* symbol (from m import s as t; t()) has, when it is visited, the         *)
(* signature (m, s), which is also that of the unaliased call m.s(); at    *)
(* the end of the traversal such a call of an acquisition has one          *)
(* diagnostic, of the kind the registry gives (m, s), and a fresh task     *)
(* passed to such a call of a combinator has no record.                    *)
(***************************************************************************)
C19_Aliasing ==
  /\ pc = "visit" /\ agenda # <<>> /\ Head(agenda).t = "Call"
     => LET sig == AliasedSig(Len(prog), Head(agenda))
        IN sig # None
           => /\ _call_signature(Self, Head(agenda)) = sig
              /\ _call_signature(Self, Unaliased(sig)) = sig
  /\ pc = "done"
     => \A i \in DOMAIN prog :
          LET call == StmtCall(prog[i].node)
              sig == IF call.t = "Call" THEN AliasedSig(i, call) ELSE None
          IN /\ sig # None /\ sig \in DOMAIN TARGET_SIGS /\ call.args = <<>>
                => /\ Len(IssuesAt(i)) = 1
                   /\ IssuesAt(i)[1].kind = TARGET_SIGS[sig]
             /\ sig # None /\ sig \in TASK_RELEASE_SIGS => RecordsAt(i) = {}

\* pathlib.Path imported under the alias a and called as a.open() is reported
\* as a file
C19_Witness ==
  /\ pc = "done"
  /\ Len(prog) = 2
  /\ prog[1].node = Import(<<Alias(<<"pathlib", "Path">>, S("a"))>>)
  /\ prog[2].node = Expr(CallVia(2, S("open"), <<>>))
  /\ Len(issues) = 1 /\ issues[1].kind = "file_handle"

\* the number of function definitions, sync or async, being visited
FunctionDepth ==
  Cardinality({b \in DOMAIN blocks : blocks[b].t \in FunctionTypes})

\* the records filed in the scope at depth d
FiledIn(d) ==
  UNION {Range(scope_stack[d].by_name[n]) : n \in DOMAIN scope_stack[d].by_name}

(***************************************************************************)
(* C20  Scope stack well-formedness: the stack is never empty; while       *)
(* visiting, its depth is 1 plus the number of enclosing function          *)
(* definitions and the scope at each depth holds only records of           *)
(* statements of the definition at that depth (the bottom one those of the *)
(* module); when the traversal is over the depth is 1.  A step that        *)
(* changes the depth either pushes one empty scope, on visiting a function *)
(* definition, or pops the top one, on leaving the definition that pushed  *)
(* it; neither touches the scopes below.                                   *)
(***************************************************************************)
C20_ScopeStack ==
  /\ [](/\ Len(scope_stack) >= 1
        /\ pc = "visit" => Len(scope_stack) = 1 + FunctionDepth
        /\ pc = "visit" =>
             \A d \in DOMAIN scope_stack : \A r \in FiledIn(d) :
               InnerScope(prog[records[r].lineno]) = ScopeChain[d]
        /\ pc = "done" => Len(scope_stack) = 1)
  /\ [][/\ Len(scope_stack') > Len(scope_stack)
           => /\ agenda # <<>> /\ Head(agenda).t \in FunctionTypes
              /\ scope_stack' = Append(scope_stack, Scope)
        /\ Len(scope_stack') < Len(scope_stack)
           => /\ blocks # <<>> /\ blocks[Len(blocks)].t \in FunctionTypes
              /\ blocks' = Pop(blocks)
              /\ scope_stack' = Pop(scope_stack)]_vars

\* a sync definition holding an async one holding a binding was visited: the
\* depth went up to 3 and is back at 1
C20_Witness ==
  /\ pc = "done"
  /\ Len(scope_stack) = 1
  /\ Len(prog) >= 3
  /\ prog[1].node = DefStmt(1, "FunctionDef")
  /\ prog[2].node = DefStmt(2, "AsyncFunctionDef")
  /\ prog[3].node = BindStmt(3, "x", "file_handle")
  /\ prog[3].chain = <<0, 1, 2>>
  /\ Len(records) >= 1

\* the scope that was current when the statement of record r was reached
ScopeOf(r) == InnerScope(prog[records[r].lineno])

\* the depths of the stack at whose scope record r is filed
FiledAt(r) == {d \in DOMAIN scope_stack : r \in FiledIn(d)}

(***************************************************************************)
(* C21  Scope isolation of records: a named record is filed in the table   *)
(* of the scope that was current at its statement and in no other, for as  *)
(* long as that scope is on the stack; once the scope is popped no step    *)
(* changes the record, whatever release events follow; and at the end of   *)
(* the traversal every unreleased record has a diagnostic.                 *)
(***************************************************************************)
C21_ScopeIsolation ==
  /\ [](\A r \in DOMAIN records :
          FiledAt(r) = {d \in DOMAIN scope_stack :
                          /\ records[r].name # None
                          /\ ScopeChain[d] = ScopeOf(r)})
  /\ [][\A r \in DOMAIN records :
          ScopeOf(r) \notin Range(ScopeChain) => records'[r] = records[r]]_vars
  /\ [](pc = "done" =>
          \A r \in Unreleased :
            \E d \in DOMAIN issues : /\ issues[d].lineno = records[r].lineno
                                     /\ issues[d].kind = records[r].kind
                                     /\ issues[d].message.name = Subject(records[r]))

\* a file bound to x inside a function is closed by name after the function,
\* at module level, and again inside a sibling function: it stays unreleased
\* and is reported
C21_Witness ==
  /\ pc = "done"
  /\ Len(prog) = 4
  /\ prog[1].node = DefStmt(1, "FunctionDef")
  /\ prog[2].node = BindStmt(2, "x", "file_handle") /\ prog[2].chain = <<0, 1>>
  /\ prog[3].node = ReleaseStmt(3, "x", "close") /\ prog[3].chain = <<0>>
  /\ prog[4].node = DefStmt(4, "AsyncFunctionDef") /\ prog[4].chain = <<0>>
  /\ Len(records) = 1 /\ ~records[1].released
  /\ Len(IssuesAt(2)) = 1

\* the names the explored programs import under or look up
AliasNames == {S("a"), S("t"), S("x"), S("socket")}

\* the depths of the stack at whose scope the name n is bound
BoundAt(n) == {d \in DOMAIN scope_stack : n \in DOMAIN scope_stack[d].aliases}

\* the binding of the innermost scope on the stack that binds n
Resolution(n) ==
  IF BoundAt(n) = {} THEN <<None, None>>
  ELSE scope_stack[Max(BoundAt(n))].aliases[n]

\* the imports of n among the statements of the scope named scope
ImportsIn(scope, n) ==
  {j \in DOMAIN prog : /\ InnerScope(prog[j]) = scope
                       /\ ImportedAs(prog[j].node, n) # None
                       /\ (j = Len(prog) => agenda = <<>>)}

ImportTypes == {"Import", "ImportFrom"}

(***************************************************************************)
(* C22  Alias visibility: only the visit of an import changes an alias     *)
(* table, and only that of the innermost scope; the table of each scope on *)
(* the stack binds exactly the names imported by the statements of that    *)
(* scope, each to its latest import there; resolution of a name gives the  *)
(* binding of the innermost scope on the stack that binds it and (None,    *)
(* None) when none does; so a.socket() has a diagnostic exactly when the   *)
(* import of a in force in the scopes on the stack at that statement is    *)
(* that of socket, whatever a function left earlier bound a to.            *)
(***************************************************************************)
C22_AliasVisibility ==
  /\ [][\A d \in DOMAIN scope_stack :
          d <= Len(scope_stack') /\ scope_stack'[d].aliases # scope_stack[d].aliases
          => /\ d = Len(scope_stack) /\ Len(scope_stack') = Len(scope_stack)
             /\ agenda # <<>> /\ Head(agenda).t \in ImportTypes]_vars
  /\ [](\A n \in AliasNames :
          /\ _lookup_alias(Self, n) = Resolution(n)
          /\ \A d \in DOMAIN scope_stack :
               LET js == ImportsIn(ScopeChain[d], n)
               IN IF js = {} THEN n \notin DOMAIN scope_stack[d].aliases
                  ELSE /\ n \in DOMAIN scope_stack[d].aliases
                       /\ scope_stack[d].aliases[n] = ImportedAs(prog[Max(js)].node, n))
  /\ [](pc = "done" =>
          \A i \in DOMAIN prog :
            prog[i].node = Expr(CallVia(i, S("socket"), <<>>))
            => IF ImportInForce(i, S("a")) = <<S("socket"), None>>
               THEN Len(IssuesAt(i)) = 1
               ELSE IssuesAt(i) = <<>>)

\* a stands for socket at module level and for subprocess inside a function;
\* after the function a.socket() is a socket again and is reported
C22_Witness ==
  /\ pc = "done"
  /\ Len(prog) = 4
  /\ prog[1].node = Import(<<Alias(S("socket"), S("a"))>>)
  /\ prog[2].node = DefStmt(2, "FunctionDef")
  /\ prog[3].node = Import(<<Alias(S("subprocess"), S("a"))>>)
  /\ prog[3].chain = <<0, 2>>
  /\ prog[4].node = Expr(CallVia(4, S("socket"), <<>>)) /\ prog[4].chain = <<0>>
  /\ Len(issues) = 1 /\ issues[1].kind = "socket_handle" /\ issues[1].lineno = 4

UnnamedAt(l) == {r \in RecordsAt(l) : records[r].name = None}

(***************************************************************************)
(* C24  Unnamed records are never released: in every state a record        *)
(* without a name is unreleased and filed in no scope's table; the visit   *)
(* of an acquisition call that is no assignment value appends one unnamed  *)
(* record unless the call is in safe_calls by then, in which case it       *)
(* appends none; at the end of the traversal every unnamed record has a    *)
(* diagnostic, whose subject is the kind tag, and a line that binds no     *)
(* name has as many diagnostics as unnamed records.                        *)
(***************************************************************************)
C24_UnnamedNeverReleased ==
  /\ [](\A r \in DOMAIN records :
          records[r].name = None => ~records[r].released /\ FiledAt(r) = {})
  /\ [][pc = "visit" /\ agenda # <<>> /\ IsAcquire(Head(agenda))
        /\ Head(agenda).uid \notin assigned_calls
        => IF Head(agenda).uid \in safe_calls
           THEN records' = records
           ELSE records' = Append(records,
                                  ResourceRecord(None, CalleeKind(Head(agenda).func),
                                                 Head(agenda).lineno))]_vars
  /\ [](pc = "done" =>
          /\ \A r \in DOMAIN records :
               records[r].name = None
               => \E d \in DOMAIN issues :
                    /\ issues[d].lineno = records[r].lineno
                    /\ issues[d].kind = records[r].kind
                    /\ issues[d].message.name = S(records[r].kind)
          /\ \A i \in DOMAIN prog :
               ~IsBoundAcquire(prog[i].node)
               => Len(IssuesAt(i)) = Cardinality(UnnamedAt(i)))

\* open().wait() leaves an unnamed file record that file_handle.close() does
\* not reach; open().close() leaves no record
C24_Witness ==
  /\ pc = "done"
  /\ Len(prog) = 3
  /\ prog[1].node = ChainedStmt(1, "file_handle", "wait")
  /\ prog[2].node = ReleaseStmt(2, "file_handle", "close")
  /\ prog[3].node = ChainedStmt(3, "file_handle", "close")
  /\ Len(records) = 1 /\ records[1].name = None /\ ~records[1].released
  /\ Len(IssuesAt(1)) = 1 /\ RecordsAt(3) = {}

\* the records whose released flag the step sets
Flipped == {r \in DOMAIN records : ~records[r].released /\ records'[r].released}

\* the node being visited is the method call name.m() with m a release method
\* of kind
IsReleaseOf(name, kind) ==
  /\ Head(agenda).t = "Call"
  /\ Head(agenda).func.t = "Attribute"
  /\ Head(agenda).func.value = [t |-> "Name", id |-> name]
  /\ Head(agenda).func.attr \in ReleaseMethodsOf(kind)

\* the node being visited is an await of the name or a combinator call that
\* is passed the name
IsConsumptionOf(name) ==
  \/ Head(agenda).t = "Await" /\ Head(agenda).value = [t |-> "Name", id |-> name]
  \/ /\ IsCombinatorCall(Head(agenda))
     /\ \E i \in DOMAIN Arguments(Head(agenda)) :
          name \in PassedNames(Arguments(Head(agenda))[i])

(***************************************************************************)
(* C25  Release attribution is kind-sound: a step that marks a record      *)
(* released is the visit of a method call name.m() on the record's name    *)
(* with m in the release-method set of the record's kind, or the visit of  *)
(* an await of the record's name or of a task combinator that is passed    *)
(* it, the record then being an asyncio_task; the step leaves every record *)
(* of another kind as it was, the more recent ones under the same name     *)
(* included.                                                               *)
(***************************************************************************)
C25_KindSound ==
  [][\A r \in Flipped :
       /\ pc = "visit" /\ agenda # <<>>
       /\ \/ IsReleaseOf(records[r].name, records[r].kind)
          \/ records[r].kind = "asyncio_task" /\ IsConsumptionOf(records[r].name)
       /\ \A q \in DOMAIN records :
            records[q].kind # records[r].kind => records'[q] = records[q]]_vars

\* x is bound to a file and then to a socket; x.close() releases the file and
\* skips the socket, which is reported
C25_Witness ==
  /\ pc = "done"
  /\ Len(prog) = 3
  /\ prog[1].node = BindStmt(1, "x", "file_handle")
  /\ prog[2].node = BindStmt(2, "x", "socket_handle")
  /\ prog[3].node = ReleaseStmt(3, "x", "close")
  /\ records[1].released /\ ~records[2].released
  /\ Len(issues) = 1 /\ issues[1].kind = "socket_handle"

RECURSIVE DottedPath(_)
\* the dotted name an expression of names and attribute accesses spells
DottedPath(e) ==
  IF e.t = "Name" THEN e.id
  ELSE IF e.t = "Attribute" /\ DottedPath(e.value) # None
  THEN DottedPath(e.value) \o e.attr
  ELSE None

RECURSIVE TargetNames(_)
\* the names the targets of an assignment give, left to right
TargetNames(targets) ==
  IF targets = <<>> THEN <<>>
  ELSE LET first == Head(targets)
       IN (IF first.t \in {"Tuple", "List"} THEN TargetNames(first.elts)
           ELSE IF DottedPath(first) # None THEN <<DottedPath(first)>>
           ELSE <<>>)
          \o TargetNames(Tail(targets))

\* statement i assigns an acquisition to at least one name
IsNamedAcquire(stmt) ==
  stmt.t = "Assign" /\ IsAcquire(stmt.value) /\ TargetNames(stmt.targets) # <<>>

\* the name for which the statement is a release event (name.m() or await
\* name), None when it is none
ReleasedName(stmt) ==
  IF stmt.t = "Expr" /\ stmt.value.t = "Call" /\ stmt.value.func.t = "Attribute"
  THEN DottedPath(stmt.value.func.value)
  ELSE IF stmt.t = "Expr" /\ stmt.value.t = "Await" THEN DottedPath(stmt.value.value)
  ELSE None

\* the statements after statement i that are release events for name
EventsFor(i, names) ==
  {j \in DOMAIN prog : j > i /\ ReleasedName(prog[j].node) \in names}

(***************************************************************************)
(* C26  Multi-target assignment: the visit of an assignment of one         *)
(* acquisition call to n >= 1 target names appends exactly n records, one  *)
(* per name in order, all of the call's kind and line and unreleased, each *)
(* filed under its name in the current scope.  At the end of the           *)
(* traversal a record of the assignment whose name has no later release    *)
(* event is unreleased whatever happened to the others; with no release    *)
(* event for any of the names there are n diagnostics on the line, and     *)
(* with one release event at least n - 1.                                  *)
(***************************************************************************)
C26_MultiTarget ==
  /\ [][pc = "visit" /\ agenda # <<>> /\ IsNamedAcquire(Head(agenda))
        => LET names == TargetNames(Head(agenda).targets)
               value == Head(agenda).value
           IN /\ records' =
                   records \o [k \in 1..Len(names) |->
                                 ResourceRecord(names[k], CalleeKind(value.func),
                                                value.lineno)]
              /\ \A k \in 1..Len(names) :
                   Len(records) + k
                     \in Range(scope_stack'[Len(scope_stack')].by_name[names[k]])]_vars
  /\ [](pc = "done" =>
          \A i \in DOMAIN prog :
            IsNamedAcquire(prog[i].node)
            => LET names == TargetNames(prog[i].node.targets)
               IN /\ Cardinality(RecordsAt(i)) = Len(names)
                  /\ \A r \in RecordsAt(i) :
                       EventsFor(i, {records[r].name}) = {} => ~records[r].released
                  /\ EventsFor(i, Range(names)) = {} => Len(IssuesAt(i)) = Len(names)
                  /\ Cardinality(EventsFor(i, Range(names))) = 1
                     => Len(IssuesAt(i)) >= Len(names) - 1)

\* x, [y, obj.attr] = socket.socket() makes three records; y.shutdown()
\* releases the one under y and the other two are reported
C26_Witness ==
  /\ pc = "done"
  /\ Len(prog) = 2
  /\ IsNamedAcquire(prog[1].node)
  /\ TargetNames(prog[1].node.targets) = <<S("x"), S("y"), <<"obj", "attr">>>>
  /\ prog[2].node = ReleaseStmt(2, "y", "shutdown")
  /\ Len(records) = 3
  /\ ~records[1].released /\ records[2].released /\ ~records[3].released
  /\ Len(IssuesAt(1)) = 2

\* the call is the value of the assignment stmt
IsValueOf(call, stmt) == stmt.t = "Assign" /\ call = stmt.value

\* the records the acquisition call site should have in all: as an assignment
\* value one per target name and one when there is none, otherwise one
\* unless it was marked safe
SiteRecords(call, stmt) ==
  IF IsValueOf(call, stmt) THEN Max({1, Len(TargetNames(stmt.targets))})
  ELSE IF call.uid \in safe_calls THEN 0
  ELSE 1

RECURSIVE SumSites(_, _)
SumSites(calls, stmt) ==
  IF calls = <<>> THEN 0
  ELSE SiteRecords(Head(calls), stmt) + SumSites(Tail(calls), stmt)

(***************************************************************************)
(* C27  No double counting of assigned acquisitions: the visit of an       *)
(* assignment whose value is an acquisition call adds max(1, n) records, n *)
(* the number of target names; the later visit of that call node adds      *)
(* none; the visit of an acquisition call that is no assignment value adds *)
(* one record, without a name, unless the call is in safe_calls, and then  *)
(* none.  At the end of the traversal the records of each line are as many *)
(* as its acquisition call sites account for.                              *)
(***************************************************************************)
C27_NoDoubleCount ==
  /\ [][pc = "visit" /\ agenda # <<>>
        => /\ Head(agenda).t = "Assign" /\ IsAcquire(Head(agenda).value)
              => Len(records') = Len(records) + SiteRecords(Head(agenda).value,
                                                            Head(agenda))
           /\ IsAcquire(Head(agenda)) /\ IsValueOf(Head(agenda), CurrentStmt)
              => Len(records') = Len(records)
           /\ IsAcquire(Head(agenda)) /\ ~IsValueOf(Head(agenda), CurrentStmt)
              => /\ Len(records') = Len(records) + SiteRecords(Head(agenda), CurrentStmt)
                 /\ \A r \in DOMAIN records' \ DOMAIN records :
                      records'[r].name = None]_vars
  /\ [](pc = "done" =>
          \A i \in DOMAIN prog :
            Cardinality(RecordsAt(i))
              = SumSites(NodesWhere(prog[i].node, IsAcquire), prog[i].node))

\* y = x = open() has two records, d[0] = socket.socket() one, and
\* x = open(socket.socket()) one for the value and one for the argument
C27_Witness ==
  /\ pc = "done"
  /\ Len(prog) = 3
  /\ prog[1].node = Assign(<<Name("y"), Name("x")>>, Acquire("file_handle", 1, 1))
  /\ prog[2].node = Assign(<<Subscript(Name("d"), Constant)>>,
                           Acquire("socket_handle", 2, 1))
  /\ prog[3].node.t = "Assign" /\ IsAcquire(prog[3].node.value)
  /\ Len(prog[3].node.value.args) = 1
  /\ Cardinality(RecordsAt(1)) = 2
  /\ Cardinality(RecordsAt(2)) = 1
  /\ Cardinality(RecordsAt(3)) = 2
  /\ Len(records) = 5

\* the acquisition calls nested at any depth in the positional and keyword
\* arguments of the calls that are context expressions of the with statement
ArgumentAcquires(stmt) ==
  IF stmt.t \in WithTypes
  THEN UNION {Uids(SelectSeq(NodesOfEach(Arguments(stmt.items[k].context_expr)),
                             IsAcquire)) :
                k \in {j \in DOMAIN stmt.items : stmt.items[j].context_expr.t = "Call"}}
  ELSE {}

(***************************************************************************)
(* C28  Safe marking recurses into arguments: at the end of the traversal  *)
(* every acquisition call nested at any depth in the positional or keyword *)
(* arguments of a call that is a with item's context expression is in      *)
(* safe_calls, and the line of that with statement has no diagnostic.      *)
(***************************************************************************)
C28_SafeRecursion ==
  pc = "done" =>
    \A i \in DOMAIN prog :
      ArgumentAcquires(prog[i].node) # {}
      => /\ ArgumentAcquires(prog[i].node) \subseteq safe_calls
         /\ IssuesAt(i) = <<>>

\* the statement is a call of no resource, or an assignment of one, or an
\* acquisition call
IsOuterCall(stmt) ==
  /\ stmt.t \in {"Expr", "Assign"}
  /\ stmt.value.t = "Call"
  /\ stmt.value.func \in {Name("wrap")} \cup {Callee(k) : k \in Kinds}

\* the acquisition calls nested in the arguments of the statement's call
NestedAcquires(stmt) ==
  IF IsOuterCall(stmt)
  THEN SelectSeq(NodesOfEach(Arguments(stmt.value)), IsAcquire)
  ELSE <<>>

\* statement i binds a name to an acquisition of kind k and statement j, the
\* next one that mentions the name, holds name.m(), m a release method of k,
\* nested in the arguments of a call of no resource
BindThenNestedRelease(i, j) ==
  /\ i < j
  /\ IsBoundAcquire(prog[i].node)
  /\ IsOuterCall(prog[j].node)
  /\ prog[j].node.value.func = Name("wrap")
  /\ \E m \in ReleaseMethodsOf(AcquiredKind(prog[i].node)) :
       <<BoundName(prog[i].node), m>> \in MethodCalls(prog[j].node)
  /\ \A l \in DOMAIN prog : i < l /\ l < j => ~Mentions(l, BoundName(prog[i].node))

\* at the end of the traversal the line of a call that is bound to no name
\* has one diagnostic per acquisition nested in its arguments, and one more
\* when the call itself is an acquisition
NestedAcquiresReported ==
  pc = "done" =>
    \A i \in DOMAIN prog :
      IsOuterCall(prog[i].node) /\ ~IsNamedAcquire(prog[i].node)
      => Len(IssuesAt(i)) = Len(NestedAcquires(prog[i].node))
                            + (IF IsUnboundAcquire(prog[i].node) THEN 1 ELSE 0)

(***************************************************************************)
(* C29  Deep traversal: at the end of the traversal the line of a call has *)
(* exactly one diagnostic per acquisition call nested at any depth in its  *)
(* arguments, keyword arguments or comprehensions, and an acquisition      *)
(* bound to a name and then released by name.m() nested in the arguments   *)
(* of a later call in the same scope, m any release method of its kind,    *)
(* has no diagnostic.                                                      *)
(***************************************************************************)
C29_DeepTraversal ==
  /\ NestedAcquiresReported
  /\ pc = "done" =>
       \A i, j \in DOMAIN prog :
         BindThenNestedRelease(i, j) /\ prog[i].chain = prog[j].chain
         => IssuesAt(i) = <<>>

\* the callee is neither a name nor an attribute of a name, of a dotted path
\* or of a call
IsComputedCallee(func) ==
  /\ func.t # "Name"
  /\ ~(func.t = "Attribute"
       /\ (DottedPath(func.value) # None \/ func.value.t = "Call"))

\* the call of the statement when its callee is computed, NoNode otherwise
ComputedCall(stmt) ==
  LET call == IF stmt.t \in {"Expr", "Assign"}
              THEN (IF stmt.value.t = "Await" THEN stmt.value.value ELSE stmt.value)
              ELSE IF stmt.t \in WithTypes THEN stmt.items[1].context_expr
              ELSE NoNode
  IN IF call.t = "Call" /\ IsComputedCallee(call.func) THEN call ELSE NoNode

(***************************************************************************)
(* C30  Unresolvable signature is a no-op: a call whose callee is neither  *)
(* a name nor an attribute of a name, dotted path or call has no           *)
(* signature; its visit changes no record, no safe or assigned mark and no *)
(* scope table, ends in no error, and goes on into its callee and          *)
(* arguments; the visit of an assignment, with or await of such a call     *)
(* changes nothing either.  At the end of the traversal the line of such a *)
(* call has one diagnostic per acquisition call among its sub-expressions  *)
(* and no more.                                                            *)
(***************************************************************************)
C30_UnresolvableNoOp ==
  /\ [][pc = "visit" /\ agenda # <<>>
        => /\ Head(agenda).t = "Call" /\ IsComputedCallee(Head(agenda).func)
              => /\ _call_signature(Self, Head(agenda)) = None
                 /\ UNCHANGED <<records, safe_calls, assigned_calls, scope_stack>>
                 /\ pc' = "visit"
                 /\ agenda' = <<Head(agenda).func>> \o Arguments(Head(agenda))
                                \o Tail(agenda)
           /\ Head(agenda).t \in {"Assign", "Await", "With"}
              /\ ComputedCall(CurrentStmt).t = "Call"
              => UNCHANGED <<records, safe_calls, assigned_calls, scope_stack>>]_vars
  /\ [](pc = "done" =>
          \A i \in DOMAIN prog :
            LET call == ComputedCall(prog[i].node)
            IN call.t = "Call"
               => Len(IssuesAt(i))
                    = Len(SelectSeq(NodesOfEach(ChildNodes(call)), IsAcquire)))

\* x[0].close() leaves the file bound to x unreleased, and d[0](open()) gets
\* a diagnostic for the acquisition in its argument only
C30_Witness ==
  /\ pc = "done"
  /\ Len(prog) = 3
  /\ prog[1].node = BindStmt(1, "x", "file_handle")
  /\ prog[2].node = Expr(Computed(2, Attribute(Subscript(Name("x"), Constant), "close"),
                                  <<>>))
  /\ prog[3].node = Expr(Computed(3, Subscript(Name("d"), Constant),
                                  <<Acquire("file_handle", 3, 1)>>))
  /\ Len(records) = 2 /\ ~records[1].released
  /\ Len(IssuesAt(1)) = 1 /\ IssuesAt(2) = <<>> /\ Len(IssuesAt(3)) = 1

\* the node is a method call on a fresh acquisition call
IsChainedCall(n) == n.t = "Call" /\ n.func.t = "Attribute" /\ IsAcquire(n.func.value)

\* the method of the chained call is a release method of the kind it is
\* called on
OwnKindMethod(n) == n.func.attr \in ReleaseMethodsOf(CalleeKind(n.func.value.func))

(***************************************************************************)
(* C31  Chained release is kind-checked: the visit of a method call on a   *)
(* fresh acquisition call puts that acquisition in safe_calls exactly when *)
(* the method is in the release-method set of the acquisition's own kind,  *)
(* and adds no record.  At the end of the traversal the line of            *)
(* acquire_k().m() has no record when m is such a method, and otherwise    *)
(* one unnamed record of kind k and one diagnostic of kind k.              *)
(***************************************************************************)
C31_ChainedKindChecked ==
  /\ [][pc = "visit" /\ agenda # <<>> /\ IsChainedCall(Head(agenda))
        => /\ records' = records
           /\ safe_calls' = safe_calls
                \cup (IF OwnKindMethod(Head(agenda))
                      THEN {Head(agenda).func.value.uid} ELSE {})]_vars
  /\ [](pc = "done" =>
          \A i \in DOMAIN prog :
            prog[i].node.t = "Expr" /\ IsChainedCall(prog[i].node.value)
            => IF OwnKindMethod(prog[i].node.value)
               THEN RecordsAt(i) = {} /\ IssuesAt(i) = <<>>
               ELSE /\ Cardinality(RecordsAt(i)) = 1
                    /\ \A r \in RecordsAt(i) :
                         /\ records[r].name = None
                         /\ records[r].kind = CalleeKind(prog[i].node.value.func.value.func)
                    /\ Len(IssuesAt(i)) = 1
                    /\ IssuesAt(i)[1].kind = CalleeKind(prog[i].node.value.func.value.func))

\* open().wait() is reported as a file and subprocess.Popen().wait() is not
\* reported
C31_Witness ==
  /\ pc = "done"
  /\ Len(prog) = 2
  /\ prog[1].node = ChainedStmt(1, "file_handle", "wait")
  /\ prog[2].node = ChainedStmt(2, "popen_handle", "wait")
  /\ Len(records) = 1 /\ records[1].kind = "file_handle" /\ records[1].name = None
  /\ Len(issues) = 1 /\ issues[1].lineno = 1
  /\ safe_calls = {<<2, 2>>}

\* the unreleased records of the name and kind filed in a scope on the stack
Pending(name, kind) ==
  {r \in Unreleased :
     /\ records[r].name = name
     /\ records[r].kind = kind
     /\ FiledAt(r) # {}}

\* the node about to be visited is a method call on an attribute path
IsPathCall(n) ==
  /\ n.t = "Call" /\ n.func.t = "Attribute"
  /\ n.func.value.t = "Attribute" /\ DottedPath(n.func.value) # None

\* the visit of an assignment of an acquisition to one attribute path files
\* one record under the dotted name in the current scope
AttributePathFiled ==
  [][pc = "visit" /\ agenda # <<>> /\ IsNamedAcquire(Head(agenda))
       /\ Len(Head(agenda).targets) = 1 /\ Head(agenda).targets[1].t = "Attribute"
     => LET name == DottedPath(Head(agenda).targets[1])
        IN /\ records' = Append(records,
                                ResourceRecord(name, CalleeKind(Head(agenda).value.func),
                                               Head(agenda).value.lineno))
           /\ Len(name) = 2
           /\ Len(records') \in Range(scope_stack'[Len(scope_stack')].by_name[name])]_vars

\* the visit of path.m() marks a pending record of the path for each kind in
\* kinds that has m as a release method and has a pending record of the path
AttributePathReleased(kinds, methods) ==
  pc = "visit" /\ agenda # <<>> /\ IsPathCall(Head(agenda))
  => \A k \in kinds :
       /\ Head(agenda).func.attr \in ReleaseMethodsOf(k) \cap methods
       /\ Pending(DottedPath(Head(agenda).func.value), k) # {}
       => Flipped \cap Pending(DottedPath(Head(agenda).func.value), k) # {}

\* release by attribute path for every kind and method but close on a socket
AttributePathReleasedButSocketClose ==
  [][/\ AttributePathReleased(Kinds \ {"socket_handle"}, {S(m) : m \in Methods})
     /\ AttributePathReleased({"socket_handle"}, {S("shutdown")})]_vars

(***************************************************************************)
(* C32  Attribute-path receivers: the visit of an assignment of an         *)
(* acquisition to an attribute path files one record under the dotted name *)
(* in the current scope, and the visit of a method call whose receiver is  *)
(* that dotted path and whose method is a release method of the record's   *)
(* kind, made while the record's scope is on the stack (the same scope or  *)
(* a nested one), marks a pending record of that path and kind released.   *)
(***************************************************************************)
C32_AttributePath ==
  /\ AttributePathFiled
  /\ [][AttributePathReleased(Kinds, {S(m) : m \in Methods})]_vars

\* the node about to be visited awaits a bare name or an attribute path
IsAwaitOfBoundName(n) == n.t = "Await" /\ DottedPath(n.value) # None

(***************************************************************************)
(* C33  Await by bound name covers every bound-name form: the visit of an  *)
(* await whose operand is a bare name or a dotted attribute path, made     *)
(* while an unreleased task record under that name is filed in a scope on  *)
(* the stack, marks such a record released; a task assigned to obj.attr    *)
(* and then awaited as obj.attr has no diagnostic.                         *)
(***************************************************************************)
C33_AwaitEveryForm ==
  /\ [][pc = "visit" /\ agenda # <<>> /\ IsAwaitOfBoundName(Head(agenda))
          /\ Pending(DottedPath(Head(agenda).value), "asyncio_task") # {}
        => Flipped \cap Pending(DottedPath(Head(agenda).value), "asyncio_task") # {}]_vars
  /\ [](pc = "done" /\ Len(prog) = 2
          /\ prog[1].node = AttrBindStmt(1, "asyncio_task")
          /\ prog[2].node = AwaitAttrStmt(2)
        => issues = <<>>)

\* the bare-name form alone: an await of a bare name marks a pending task
\* record of that name
AwaitBareNameReleases ==
  [][pc = "visit" /\ agenda # <<>> /\ Head(agenda).t = "Await"
       /\ Head(agenda).value.t = "Name"
       /\ Pending(Head(agenda).value.id, "asyncio_task") # {}
     => Flipped \cap Pending(Head(agenda).value.id, "asyncio_task") # {}]_vars

\* the depths of the stack whose scope holds a pending record of the name and
\* kind
PendingDepths(name, kind) ==
  {d \in DOMAIN scope_stack : FiledIn(d) \cap Pending(name, kind) # {}}

(***************************************************************************)
(* C34  LIFO across scopes: a step marks at most one record; the record    *)
(* marked, of name x and kind k, is filed in the innermost scope of the    *)
(* stack that holds an unreleased kind-k record under x and is the newest  *)
(* such record of that scope, and it is the most recently created one      *)
(* among all unreleased kind-k records under x in the scopes on the stack. *)
(***************************************************************************)
C34_LifoAcrossScopes ==
  [][/\ Cardinality(Flipped) <= 1
     /\ \A r \in Flipped :
          LET pending == Pending(records[r].name, records[r].kind)
              depth == Max(PendingDepths(records[r].name, records[r].kind))
          IN /\ r \in pending
             /\ r = Max(FiledIn(depth) \cap pending)
             /\ r = Max(pending)]_vars

\* x is bound to a file in the module and in a function; x.close() in the
\* function releases the function's record and leaves the module's
C34_Witness ==
  /\ pc = "done"
  /\ Len(prog) = 4
  /\ prog[1].node = BindStmt(1, "x", "file_handle")
  /\ prog[2].node = DefStmt(2, "FunctionDef")
  /\ prog[3].node = BindStmt(3, "x", "file_handle") /\ prog[3].chain = <<0, 2>>
  /\ prog[4].node = ReleaseStmt(4, "x", "close") /\ prog[4].chain = <<0, 2>>
  /\ Len(records) = 2 /\ ~records[1].released /\ records[2].released
  /\ Len(issues) = 1 /\ issues[1].lineno = 1

PyFilesBeneath == {rel \in files : rel # <<>> /\ rel[Len(rel)] \in PySuffix}

\* the file is in the list collect_files returns
Selected(rel) == path \o rel \in Range(found)

\* none of the components between the root and the file is an ignored name
PlainBeneath(rel) == \A i \in 1..Len(rel) - 1 : rel[i] \notin IGNORED_PARTS

(***************************************************************************)
(* C36  File selection: when collect_files has returned for a directory    *)
(* root, a .py file beneath the root is in the list if and only if none of *)
(* the path components between the root and the file is an ignored name,   *)
(* whatever the components of the root itself are.                         *)
(***************************************************************************)
C36_FileSelection ==
  pc = "collected" /\ files # {<<>>}
  => \A rel \in PyFilesBeneath : Selected(rel) <=> PlainBeneath(rel)

\* what collect_files does: the components of the root count as well
SelectedByAllParts ==
  pc = "collected" /\ files # {<<>>}
  => \A rel \in PyFilesBeneath :
       Selected(rel) <=> /\ PlainBeneath(rel)
                         /\ \A i \in DOMAIN path : path[i] \notin IGNORED_PARTS

\* the step is a call of report: the first one, or the one made again
IsReportCall == (pc = "visit" /\ pc' = "done") \/ (pc = "done" /\ pc' = "reported")

(***************************************************************************)
(* C37  Reporter has no effect on state: a call of report leaves the       *)
(* record list, with every record's name, kind, line and released flag,    *)
(* the scope stack and the safe and assigned marks as they were, and a     *)
(* second call of report on the same analyzer returns the list the first   *)
(* call returned.                                                          *)
(***************************************************************************)
C37_ReportFrame ==
  [][IsReportCall
     => /\ records' = records
        /\ scope_stack' = scope_stack
        /\ safe_calls' = safe_calls
        /\ assigned_calls' = assigned_calls
        /\ pc = "done" => issues' = issues]_vars

\* report called twice on records that are not in report order, one of them
\* released
C37_Witness ==
  /\ pc = "reported"
  /\ Len(prog) = 3
  /\ prog[1].node = DecoratedDef("FunctionDef", 1, <<TwoAcquires(1, "deco")>>)
  /\ prog[2].node = Assign(<<Name("y"), Name("x")>>, Acquire("file_handle", 2, 1))
  /\ prog[2].chain = <<0, 1>>
  /\ prog[3].node = ReleaseStmt(3, "x", "close")
  /\ [i \in 1..4 |-> records[i].lineno] = <<2, 2, 1, 1>>
  /\ Cardinality(Unreleased) = 3
  /\ [i \in 1..3 |-> issues[i].lineno] = <<1, 1, 2>>

\* the node being visited is a release event for the name and kind: a call
\* name.m() with m a release method of the kind (the <<kind, m>> pairs in
\* excluded set aside), and for a task an await of the name or a combinator
\* that is passed it
IsEventFor(name, kind, excluded) ==
  \/ /\ IsReleaseOf(name, kind)
     /\ <<kind, Head(agenda).func.attr>> \notin excluded
  \/ kind = "asyncio_task" /\ IsConsumptionOf(name)

\* the records of the name and kind
RecordsOf(name, kind) ==
  {r \in DOMAIN records : records[r].name = name /\ records[r].kind = kind}

\* every record of the name and kind is filed in the current scope
InOneScope(name, kind) ==
  \A r \in RecordsOf(name, kind) : FiledAt(r) = {Len(scope_stack)}

\* a release event pops the newest unreleased record of its name and kind,
\* or changes nothing when there is none, and marks no other record
StackStep(excluded) ==
  \A k \in Kinds :
    pc = "visit" /\ agenda # <<>> /\ IsEventFor(S("x"), k, excluded)
      /\ InOneScope(S("x"), k)
    => /\ Flipped \cap RecordsOf(S("x"), k)
            = (IF Pending(S("x"), k) = {} THEN {} ELSE {Max(Pending(S("x"), k))})
       /\ Cardinality(Flipped) <= 1

\* statement j is one release event for x and kind k and nothing else
IsEventStmt(j, k, excluded) ==
  \/ \E m \in ReleaseMethodsOf(k) :
       /\ <<k, m>> \notin excluded
       /\ prog[j].node = ReleaseStmt(j, "x", m[1])
  \/ /\ k = "asyncio_task"
     /\ prog[j].node \in {AwaitNameStmt(j, "x"),
                          CombinatorStmt(j, "gather", <<Name("x")>>, <<>>)}

\* after n acquisitions and then r release events, in the module scope, the
\* oldest max(n - r, 0) records are the unreleased ones
StackCount(excluded) ==
  pc = "done" =>
    \A k \in Kinds : \A n \in 1..Len(prog) :
      /\ \A i \in 1..n : prog[i].node = BindStmt(i, "x", k)
      /\ \A j \in n + 1..Len(prog) : IsEventStmt(j, k, excluded)
      /\ \A i \in DOMAIN prog : prog[i].chain = <<0>>
      => Unreleased = 1..(IF 2 * n > Len(prog) THEN 2 * n - Len(prog) ELSE 0)

\* the stack discipline for every release event but close on a socket
StackButSocketClose ==
  /\ [][StackStep({<<"socket_handle", S("close")>>})]_vars
  /\ [](StackCount({<<"socket_handle", S("close")>>}))

(***************************************************************************)
(* C38  Stack discipline of releases: within one scope, for one name and   *)
(* kind, a release event pops the newest unreleased record of that name    *)
(* and kind, changes nothing when none is unreleased, and marks at most    *)
(* one record; after n acquisitions followed by r release events exactly   *)
(* the oldest max(n - r, 0) records are unreleased.                        *)
(***************************************************************************)
C38_StackDiscipline ==
  /\ [][StackStep({})]_vars
  /\ [](StackCount({}))

\* no record under the name is pending in a scope on the stack
NothingPending(name) == \A k \in Kinds : Pending(name, k) = {}

\* no statement after statement i holds a release event for the name
NoLaterEvent(i, name) ==
  \A j \in i + 1..Len(prog) : \A k \in Kinds : ~Releases(prog[j].node, name, k)

(***************************************************************************)
(* C39  A release has no effect on later acquisitions: the visit of a      *)
(* release event for name x while no record under x is pending changes no  *)
(* record, no scope table and no mark; at the end of the traversal an      *)
(* acquisition bound to x with no release event for x visited after it is  *)
(* reported, whatever release events were visited before it, those in the  *)
(* body of a nested function defined before the acquisition included.      *)
(***************************************************************************)
C39_NoEffectOnLater ==
  /\ [][pc = "visit" /\ agenda # <<>>
          /\ (\E k \in Kinds : IsEventFor(S("x"), k, {}))
          /\ NothingPending(S("x"))
        => /\ records' = records
           /\ scope_stack' = scope_stack
           /\ safe_calls' = safe_calls
           /\ assigned_calls' = assigned_calls]_vars
  /\ [](pc = "done" =>
          \A i \in DOMAIN prog :
            IsBoundAcquire(prog[i].node) /\ NoLaterEvent(i, BoundName(prog[i].node))
            => Len(IssuesAt(i)) = 1)

\* def outer: def inner: x.close(); then x = open() in outer: reported
C39_Witness ==
  /\ pc = "done"
  /\ Len(prog) = 4
  /\ prog[1].node = DefStmt(1, "FunctionDef")
  /\ prog[2].node = DefStmt(2, "FunctionDef") /\ prog[2].chain = <<0, 1>>
  /\ prog[3].node = ReleaseStmt(3, "x", "close") /\ prog[3].chain = <<0, 1, 2>>
  /\ prog[4].node = BindStmt(4, "x", "file_handle") /\ prog[4].chain = <<0, 1>>
  /\ Len(records) = 1 /\ ~records[1].released
  /\ Len(issues) = 1 /\ issues[1].lineno = 4

=============================================================================
